---- MODULE Spec2Model ----
(***************************************************************************)
(* A model of the Asset Revesting signal engine: the time-indexed store,   *)
(* the stage classifier with its 3-day confirmation, the four-pillar       *)
(* signal generator with asset rotation, the exit rules and the backtest   *)
(* loop that replays them day by day.                                      *)
(*                                                                         *)
(* Units.  Dates are day ordinals (the code's 'YYYY-MM-DD' strings order   *)
(* the same way).  Prices, SMAs, ATR and the VIX close are integers.       *)
(* Slopes, relative strength and %B are in hundredths (0.5 percent is 50,  *)
(* %B = 1.0 is 100); volume ratios are in hundredths (3.0 is 300).  Stop,  *)
(* target and trailing prices are in thousandths of a price unit, which    *)
(* makes every percentage of config.py exact.  A nullable column or a      *)
(* missing row is NULL == << >>, a present value v is << v >>.             *)
(***************************************************************************)
EXTENDS Integers, Sequences, FiniteSets, TLC

VARIABLES db, bt, db2, bt2, pc, ret

vars == <<db, bt, db2, bt2, pc, ret>>

----------------------------------------------------------------------------
(* Optional values (Python None / SQL NULL) *)

NULL == << >>

Some(v) == << v >>

IsNull(o) == o = << >>

NotNull(o) == o # << >>

Val(o) == o[1]

Abs(x) == IF x < 0 THEN -x ELSE x

Min2(a, b) == IF a < b THEN a ELSE b

Max2(a, b) == IF a > b THEN a ELSE b

\* Python's sum() over a list of booleans
CountTrue(bs) == Cardinality({k \in DOMAIN bs : bs[k]})

----------------------------------------------------------------------------
(* config.py *)

ANALYSIS_SYMBOLS == <<"SPY", "QQQ", "TLT", "UUP", "UDN">>

AnalysisSet == {ANALYSIS_SYMBOLS[k] : k \in DOMAIN ANALYSIS_SYMBOLS}

CASH_SYMBOL == "BIL"

\* EQUITY_INVERSE_SYMBOLS.get("SPY", "SH")
EQUITY_INVERSE_SPY == "SH"

\* every symbol with rows in the prices table that the core reads
Symbols == AnalysisSet \cup {EQUITY_INVERSE_SPY}

\* 0.5 percent, in hundredths of a percent
STAGE_SLOPE_THRESHOLD == 50

STAGE_CONFIRMATION_DAYS == 3

STAGE_1 == "STAGE_1"

STAGE_2 == "STAGE_2"

STAGE_3 == "STAGE_3"

STAGE_4 == "STAGE_4"

TRANSITIONAL == "TRANSITIONAL"

Stages == {STAGE_1, STAGE_2, STAGE_3, STAGE_4, TRANSITIONAL}

ENTRY_STRONG_THRESHOLD == 4

ENTRY_MODERATE_THRESHOLD == 3

TREND_MIN_CONDITIONS == 4

VIX_LOW == 15

VIX_NORMAL == 20

VIX_ELEVATED == 30

VIX_HIGH == 40

VIX_EMERGENCY_LEVEL == 40

\* volume ratios are in hundredths: 3.0
VOLUME_PANIC_THRESHOLD == 300

VOLUME_FOMO_THRESHOLD == 300

USE_ATR_STOPS == TRUE

ATR_MULTIPLIER == 3

\* stop, target and trailing percentages are in thousandths: 0.10, 0.04, ...
ATR_MAX_STOP_PCT == 100

ATR_MIN_STOP_PCT == 40

MAX_STOP_PCT == 50

FIRST_TARGET_PCT == 20

TRAILING_STOP_PCT == 30

MAX_STOP_PCT_INVERSE == 40

FIRST_TARGET_PCT_INVERSE == 15

TRAILING_STOP_PCT_INVERSE == 20

FIRST_TARGET_PCT_STAGE3 == 15

\* fractions of the shares are in hundredths: 0.25, 0.50, 0.75
PARTIAL_EXIT_PCT_STAGE2 == 25

PARTIAL_EXIT_PCT_STAGE3 == 50

PARTIAL_EXIT_PCT_INVERSE == 25

SPEED_CHECK_DAYS == 2

SPEED_CHECK_EXTRA_PCT == 25

SPEED_CHECK_MAX_PCT == 75

STRONG_ENTRY == "STRONG_ENTRY"

MODERATE_ENTRY == "MODERATE_ENTRY"

NO_ENTRY == "NO_ENTRY"

LONG == "LONG"

LONG_INVERSE == "LONG_INVERSE"

HOLD == "HOLD"

----------------------------------------------------------------------------
(* The store.  db.prices[s][d], db.indicators[s][d], db.vix_indicators[d], *)
(* db.volume_indicators[d] and db.stages[s][d] are NULL (no row) or        *)
(* << row >>.                                                              *)

\* number of calendar days the store covers
MaxDate == 7

Dates == 1..MaxDate

\* the greatest date in ds (ORDER BY date DESC LIMIT 1), ds non-empty
MaxOf(ds) == CHOOSE d \in ds : \A e \in ds : e <= d

\* SELECT close FROM prices WHERE symbol = ? AND date = ?
get_close(d, symbol, date) ==
    IF date \in Dates /\ NotNull(d.prices[symbol][date])
    THEN Val(d.prices[symbol][date]).close
    ELSE NULL

\* SELECT open FROM prices WHERE symbol = ? AND date = ?
get_open(d, symbol, date) ==
    IF date \in Dates /\ NotNull(d.prices[symbol][date])
    THEN Val(d.prices[symbol][date]).open
    ELSE NULL

\* the dates a lookup with as_of_date may return: all dates when as_of_date
\* is None, else the dates <= as_of_date
AsOfDates(as_of) == IF IsNull(as_of) THEN Dates ELSE {x \in Dates : x <= Val(as_of)}

\* the latest row of the column whatever the as-of date
LatestRowAnyDate(tab, as_of) ==
    LET ds == {x \in Dates : NotNull(tab[x])}
    IN IF ds = {} THEN NULL
       ELSE Some([date |-> MaxOf(ds), row |-> Val(tab[MaxOf(ds)])])

\* the latest row dated before the as-of date
LatestRowBefore(tab, as_of) ==
    LET ds == {x \in AsOfDates(as_of) : NotNull(tab[x]) /\ (IsNull(as_of) \/ x < Val(as_of))}
    IN IF ds = {} THEN NULL
       ELSE Some([date |-> MaxOf(ds), row |-> Val(tab[MaxOf(ds)])])

\* latest row of a date-indexed table column, with its date
LatestRow(tab, as_of) ==
    LET ds == {x \in AsOfDates(as_of) : NotNull(tab[x])}
    IN IF ds = {} THEN NULL
       ELSE Some([date |-> MaxOf(ds), row |-> Val(tab[MaxOf(ds)])])

get_latest_indicators(d, symbol, as_of) == LatestRow(d.indicators[symbol], as_of)

get_latest_vix(d, as_of) == LatestRow(d.vix_indicators, as_of)

get_latest_volume(d, as_of) == LatestRow(d.volume_indicators, as_of)

----------------------------------------------------------------------------
(* stage_analysis.py *)

\* the dict classify_stage receives: the indicator row, plus the key "close"
\* when the prices table has a close for that date
WithClose(row, close) ==
    [f \in (DOMAIN row) \cup {"close"} |-> IF f = "close" THEN close ELSE row[f]]

\* the STAGE_2 votes (s2) of classify_stage; all inputs present
S2Votes(close, sma_50, sma_150, sma_200, slope_150, slope_200) ==
    << close > sma_150,
       close > sma_200,
       slope_150 > STAGE_SLOPE_THRESHOLD,
       sma_50 > sma_150 /\ sma_150 > sma_200,
       slope_200 > -STAGE_SLOPE_THRESHOLD >>

\* S4Votes with the two comparisons of the close left as in s2
S4VotesCloseAbove(close, sma_50, sma_150, sma_200, slope_150, slope_200) ==
    << close > sma_150,
       close > sma_200,
       slope_150 < -STAGE_SLOPE_THRESHOLD,
       sma_50 < sma_150 /\ sma_150 < sma_200,
       slope_200 < STAGE_SLOPE_THRESHOLD >>

\* the STAGE_4 votes (s4) of classify_stage
S4Votes(close, sma_50, sma_150, sma_200, slope_150, slope_200) ==
    << close < sma_150,
       close < sma_200,
       slope_150 < -STAGE_SLOPE_THRESHOLD,
       sma_50 < sma_150 /\ sma_150 < sma_200,
       slope_200 < STAGE_SLOPE_THRESHOLD >>

\* the STAGE_3 votes (s3); slope_50 may be NULL
S3Votes(sma_50, sma_150, slope_150, slope_200, slope_50o) ==
    << Abs(slope_150) <= STAGE_SLOPE_THRESHOLD * 2,
       NotNull(slope_50o) /\ Val(slope_50o) < STAGE_SLOPE_THRESHOLD,
       sma_50 < sma_150,
       slope_200 > -STAGE_SLOPE_THRESHOLD >>

\* the STAGE_1 votes (s1): threshold * 1.5 is 2 * |slope| <= 3 * threshold,
\* |close - sma_150| / sma_150 * 100 < 3.0 is 100 * |..| < 3 * sma_150
S1Votes(close, sma_150, slope_150, slope_200) ==
    << Abs(slope_150) <= STAGE_SLOPE_THRESHOLD,
       2 * Abs(slope_200) <= 3 * STAGE_SLOPE_THRESHOLD,
       sma_150 > 0 /\ 100 * Abs(close - sma_150) < 3 * sma_150 >>

classify_stage(ind) ==
    IF \E f \in {"close", "sma_50", "sma_150", "sma_200",
                 "sma_150_slope", "sma_200_slope"} : IsNull(ind[f])
    THEN TRANSITIONAL
    ELSE LET close == Val(ind.close)
             sma_50 == Val(ind.sma_50)
             sma_150 == Val(ind.sma_150)
             sma_200 == Val(ind.sma_200)
             slope_150 == Val(ind.sma_150_slope)
             slope_200 == Val(ind.sma_200_slope)
         IN IF CountTrue(S2Votes(close, sma_50, sma_150, sma_200, slope_150, slope_200)) >= 4
            THEN STAGE_2
            ELSE IF CountTrue(S4Votes(close, sma_50, sma_150, sma_200, slope_150, slope_200)) >= 4
            THEN STAGE_4
            ELSE IF CountTrue(S3Votes(sma_50, sma_150, slope_150, slope_200, ind.sma_50_slope)) >= 3
            THEN STAGE_3
            ELSE IF CountTrue(S1Votes(close, sma_150, slope_150, slope_200)) >= 2
            THEN STAGE_1
            ELSE TRANSITIONAL

get_close_for_date(d, symbol, date) == get_close(d, symbol, date)

\* one row of the stages table
StageRow(raw_stage, confirmed, consecutive) ==
    [stage |-> raw_stage,
     confirmed |-> IF confirmed THEN 1 ELSE 0,
     consecutive_days |-> consecutive]

\* "Count consecutive days" of compute_stage_history; last_raw is NULL before
\* the first date
FoldConsecutive(raw_stage, last_raw, consecutive) ==
    IF last_raw = Some(raw_stage) /\ raw_stage # TRANSITIONAL THEN consecutive + 1
    ELSE IF raw_stage = TRANSITIONAL THEN 0
    ELSE 1

\* ApplyConfirmation confirming one day early (consecutive >= 2)
ApplyConfirmationEarly(raw_stage, last_confirmed, consecutive) ==
    IF raw_stage = TRANSITIONAL
    THEN [confirmed_stage |-> last_confirmed, confirmed |-> FALSE]
    ELSE IF raw_stage = last_confirmed
    THEN [confirmed_stage |-> last_confirmed, confirmed |-> TRUE]
    ELSE IF consecutive >= STAGE_CONFIRMATION_DAYS - 1
    THEN [confirmed_stage |-> raw_stage, confirmed |-> TRUE]
    ELSE [confirmed_stage |-> last_confirmed, confirmed |-> FALSE]

\* ApplyConfirmation without its TRANSITIONAL branch
ApplyConfirmationNoTransitional(raw_stage, last_confirmed, consecutive) ==
    IF raw_stage = last_confirmed
    THEN [confirmed_stage |-> last_confirmed, confirmed |-> TRUE]
    ELSE IF consecutive >= STAGE_CONFIRMATION_DAYS
    THEN [confirmed_stage |-> raw_stage, confirmed |-> TRUE]
    ELSE [confirmed_stage |-> last_confirmed, confirmed |-> FALSE]

\* "Apply confirmation": the pair (confirmed_stage, confirmed) for a raw stage,
\* the last confirmed stage and the run length (the same four branches in
\* compute_stage_history and in determine_stage)
ApplyConfirmation(raw_stage, last_confirmed, consecutive) ==
    IF raw_stage = TRANSITIONAL
    THEN [confirmed_stage |-> last_confirmed, confirmed |-> FALSE]
    ELSE IF raw_stage = last_confirmed
    THEN [confirmed_stage |-> last_confirmed, confirmed |-> TRUE]
    ELSE IF consecutive >= STAGE_CONFIRMATION_DAYS
    THEN [confirmed_stage |-> raw_stage, confirmed |-> TRUE]
    ELSE [confirmed_stage |-> last_confirmed, confirmed |-> FALSE]

\* the dates compute_stage_history visits for a symbol: indicators JOIN prices
\* on (symbol, date) WHERE sma_200 IS NOT NULL
HistoryDates(d, symbol) ==
    {x \in Dates : /\ NotNull(d.indicators[symbol][x])
                   /\ NotNull(Val(d.indicators[symbol][x]).sma_200)
                   /\ NotNull(d.prices[symbol][x])}

\* the least date in ds (ORDER BY date ASC), ds non-empty
MinOf(ds) == CHOOSE d \in ds : \A e \in ds : d <= e

\* the loop over the dates of one symbol, ascending: st carries last_confirmed,
\* consecutive and last_raw, tab is the symbol's column of the stages table
RECURSIVE StageFold(_, _, _, _, _)

\* the body of the loop counting every earlier day of the raw stage, not
\* only the unbroken run
FoldRowCountingDays(d, symbol, rest, st, tab, date_str, raw_stage) ==
    LET consecutive ==
            IF raw_stage = TRANSITIONAL THEN 0
            ELSE 1 + Cardinality({x \in Dates : /\ x < date_str /\ NotNull(tab[x])
                                                /\ Val(tab[x]).stage = raw_stage})
        c == ApplyConfirmation(raw_stage, st.last_confirmed, consecutive)
    IN StageFold(d, symbol, rest,
                 [last_confirmed |-> c.confirmed_stage, consecutive |-> consecutive,
                  last_raw |-> Some(raw_stage)],
                 [tab EXCEPT ![date_str] =
                     Some(StageRow(raw_stage, c.confirmed, consecutive))])

\* the body of the loop from "Count consecutive days" on, for the raw stage
\* classified at date_str; rest are the dates still to visit
FoldRow(d, symbol, rest, st, tab, date_str, raw_stage) ==
    LET consecutive == FoldConsecutive(raw_stage, st.last_raw, st.consecutive)
        c == ApplyConfirmation(raw_stage, st.last_confirmed, consecutive)
    IN StageFold(d, symbol, rest,
                 [last_confirmed |-> c.confirmed_stage, consecutive |-> consecutive,
                  last_raw |-> Some(raw_stage)],
                 [tab EXCEPT ![date_str] =
                     Some(StageRow(raw_stage, c.confirmed, consecutive))])

\* the body of the loop for date_str and the indicators read as of it
FoldDate(d, symbol, rest, st, tab, date_str, ind) ==
    IF IsNull(ind) THEN StageFold(d, symbol, rest, st, tab)
    ELSE FoldRow(d, symbol, rest, st, tab, date_str,
                 classify_stage(WithClose(Val(ind).row,
                                          get_close_for_date(d, symbol, date_str))))

StageFold(d, symbol, ds, st, tab) ==
    IF ds = {} THEN tab
    ELSE FoldDate(d, symbol, ds \ {MinOf(ds)}, st, tab, MinOf(ds),
                  get_latest_indicators(d, symbol, Some(MinOf(ds))))

\* compute_stage_history carrying on from the rows already stored: the loop
\* starts from the latest stored row of the symbol instead of from scratch
ComputeStageHistoryResumed(d) ==
    [s \in DOMAIN d.stages |->
        IF s \in AnalysisSet
        THEN LET rs == {x \in Dates : NotNull(d.stages[s][x])}
                 cs == {x \in rs : Val(d.stages[s][x]).confirmed = 1}
             IN StageFold(d, s, HistoryDates(d, s),
                          [last_confirmed |-> IF cs = {} THEN TRANSITIONAL
                                              ELSE Val(d.stages[s][MaxOf(cs)]).stage,
                           consecutive |-> IF rs = {} THEN 0
                                           ELSE Val(d.stages[s][MaxOf(rs)]).consecutive_days,
                           last_raw |-> IF rs = {} THEN NULL
                                        ELSE Some(Val(d.stages[s][MaxOf(rs)]).stage)],
                          d.stages[s])
        ELSE d.stages[s]]

\* the stages table after compute_stage_history (INSERT OR REPLACE per date)
compute_stage_history(d) ==
    [s \in DOMAIN d.stages |->
        IF s \in AnalysisSet
        THEN StageFold(d, s, HistoryDates(d, s),
                       [last_confirmed |-> TRANSITIONAL, consecutive |-> 0, last_raw |-> NULL],
                       d.stages[s])
        ELSE d.stages[s]]

\* the stage of the latest row of tab with confirmed = 1 among the dates ds,
\* NULL when there is none
LastConfirmedRow(tab, ds) ==
    LET cs == {x \in ds : NotNull(tab[x]) /\ Val(tab[x]).confirmed = 1}
    IN IF cs = {} THEN NULL ELSE Some(Val(tab[MaxOf(cs)]).stage)

\* the latest row of tab among the dates ds, NULL when there is none
RecentRow(tab, ds) ==
    LET rs == {x \in ds : NotNull(tab[x])}
    IN IF rs = {} THEN NULL ELSE tab[MaxOf(rs)]

\* DetConsecutive restarting the count on every date
DetConsecutiveRestarting(raw_stage, recent) ==
    IF raw_stage = TRANSITIONAL THEN 0 ELSE 1

\* "Count consecutive days from PREVIOUS day" of determine_stage
DetConsecutive(raw_stage, recent) ==
    IF NotNull(recent) /\ Val(recent).stage = raw_stage
    THEN Val(recent).consecutive_days + 1
    ELSE IF raw_stage = TRANSITIONAL THEN 0
    ELSE 1

\* the dict determine_stage returns, and in field stages the stages table
\* after the call (the non-cached path stores a row)
StageInfo(stage, raw_stage, consecutive_days, confirmed, date, stages) ==
    [stage |-> stage, raw_stage |-> raw_stage, consecutive_days |-> consecutive_days,
     confirmed |-> confirmed, date |-> date, stages |-> stages]

\* determine_stage when today has no row yet: count, confirm, store, return
ComputedStage(d, symbol, today, raw_stage, last_entry, recent) ==
    LET last_confirmed == IF NotNull(last_entry) THEN Val(last_entry) ELSE TRANSITIONAL
        consecutive == DetConsecutive(raw_stage, recent)
        c == ApplyConfirmation(raw_stage, last_confirmed, consecutive)
    IN StageInfo(c.confirmed_stage, raw_stage, consecutive, c.confirmed, Some(today),
                 [d.stages EXCEPT ![symbol][today] =
                     Some(StageRow(raw_stage, c.confirmed, consecutive))])

\* determine_stage after its indicator lookup returned ind (NULL: no row)
StageOn(d, symbol, as_of, ind) ==
    IF IsNull(ind)
    THEN StageInfo(TRANSITIONAL, TRANSITIONAL, 0, FALSE, as_of, d.stages)
    ELSE IF NotNull(d.stages[symbol][Val(ind).date])
    THEN LET existing == Val(d.stages[symbol][Val(ind).date])
             last_conf == LastConfirmedRow(d.stages[symbol],
                                           {x \in Dates : x <= Val(ind).date})
         IN StageInfo(IF NotNull(last_conf) THEN Val(last_conf) ELSE TRANSITIONAL,
                      existing.stage, existing.consecutive_days, existing.confirmed # 0,
                      Some(Val(ind).date), d.stages)
    ELSE ComputedStage(d, symbol, Val(ind).date,
                       classify_stage(WithClose(Val(ind).row,
                                      get_close_for_date(d, symbol, Val(ind).date))),
                       LastConfirmedRow(d.stages[symbol], {x \in Dates : x < Val(ind).date}),
                       RecentRow(d.stages[symbol], {x \in Dates : x < Val(ind).date}))

determine_stage(d, symbol, as_of) ==
    StageOn(d, symbol, as_of, get_latest_indicators(d, symbol, as_of))

----------------------------------------------------------------------------
(* signals.py.  A function that looks rows up first is split in two: the   *)
(* function itself makes the lookups, the operator above it is the rest of *)
(* its body.                                                                *)

\* trend_check after its indicator lookup returned ind
TrendOf(d, symbol, direction, ind) ==
    IF IsNull(ind) THEN [favorable |-> FALSE, score |-> 0]
    ELSE
    LET close == get_close(d, symbol, Val(ind).date)
        r == Val(ind).row
    IN IF IsNull(close) THEN [favorable |-> FALSE, score |-> 0]
       ELSE IF \E f \in {"sma_5", "sma_20", "sma_50", "sma_150", "sma_200"} : IsNull(r[f])
       THEN [favorable |-> FALSE, score |-> 0]
       ELSE
       LET c == Val(close)
           conditions ==
               IF direction = LONG
               THEN << c > Val(r.sma_5), Val(r.sma_5) > Val(r.sma_20), c > Val(r.sma_50),
                       c > Val(r.sma_150), c > Val(r.sma_200) >>
               ELSE << c < Val(r.sma_5), Val(r.sma_5) < Val(r.sma_20), c < Val(r.sma_50),
                       c < Val(r.sma_150), c < Val(r.sma_200) >>
       IN [favorable |-> CountTrue(conditions) >= TREND_MIN_CONDITIONS,
           score |-> CountTrue(conditions)]

\* Pillar 1.  The close is read at the date of the indicator row.
trend_check(d, symbol, direction, as_of) ==
    TrendOf(d, symbol, direction, get_latest_indicators(d, symbol, as_of))

\* volatility_check after its lookups returned vix and ind; vix_regime and
\* vix_trend are NULL or << string >>, %B is in hundredths
VolatilityOf(direction, vix, ind) ==
    IF IsNull(vix) THEN [favorable |-> FALSE]
    ELSE
    LET regime == Val(vix).row.vix_regime
        trend == Val(vix).row.vix_trend
        bb_pct_b == IF NotNull(ind) THEN Val(ind).row.bb_percent_b ELSE NULL
    IN IF direction = LONG
       THEN LET vix_ok == \/ regime \in {Some("LOW"), Some("NORMAL")}
                          \/ (regime = Some("ELEVATED") /\ trend = Some("FALLING"))
                bb_ok == IsNull(bb_pct_b) \/ (0 <= Val(bb_pct_b) /\ Val(bb_pct_b) <= 100)
            IN [favorable |-> vix_ok /\ bb_ok]
       ELSE [favorable |-> regime \in {Some("HIGH"), Some("EXTREME")}
                            /\ trend = Some("RISING")]

\* Pillar 2
volatility_check(d, direction, symbol, as_of) ==
    VolatilityOf(direction, get_latest_vix(d, as_of),
                 get_latest_indicators(d, symbol, as_of))

\* the volume pillar with an undefined ratio counted as no euphoria
VolumeOfUndefinedCalm(direction, vol) ==
    IF IsNull(vol) THEN [favorable |-> TRUE]
    ELSE
    LET pr == Val(vol).row.panic_ratio
        fr == Val(vol).row.fomo_ratio
        fr_ma == Val(vol).row.fomo_ratio_ma
    IN IF direction = LONG
       THEN LET panic_signal == NotNull(pr) /\ Val(pr) >= VOLUME_PANIC_THRESHOLD
                no_euphoria == IsNull(fr_ma) \/ Val(fr_ma) < 200
            IN [favorable |-> panic_signal \/ no_euphoria]
       ELSE [favorable |-> NotNull(fr) /\ Val(fr) >= VOLUME_FOMO_THRESHOLD]

\* volume_check after its lookup returned vol; fr_ma < 2.0 is 200 hundredths
VolumeOf(direction, vol) ==
    IF IsNull(vol) THEN [favorable |-> TRUE]
    ELSE
    LET pr == Val(vol).row.panic_ratio
        fr == Val(vol).row.fomo_ratio
        fr_ma == Val(vol).row.fomo_ratio_ma
    IN IF direction = LONG
       THEN LET panic_signal == NotNull(pr) /\ Val(pr) >= VOLUME_PANIC_THRESHOLD
                no_euphoria == NotNull(fr_ma) /\ Val(fr_ma) < 200
            IN [favorable |-> panic_signal \/ no_euphoria]
       ELSE [favorable |-> NotNull(fr) /\ Val(fr) >= VOLUME_FOMO_THRESHOLD]

\* Pillar 3
volume_check(d, direction, as_of) == VolumeOf(direction, get_latest_volume(d, as_of))

\* equity_pick after its lookups returned spy and qqq
EquityOf(spy, qqq) ==
    LET spy_rs == IF NotNull(spy) THEN Val(spy).row.relative_strength ELSE NULL
        qqq_rs == IF NotNull(qqq) THEN Val(qqq).row.relative_strength ELSE NULL
    IN IF NotNull(qqq_rs) /\ NotNull(spy_rs) /\ Val(qqq_rs) > Val(spy_rs) THEN "QQQ"
       ELSE "SPY"

equity_pick(d, as_of) ==
    EquityOf(get_latest_indicators(d, "SPY", as_of), get_latest_indicators(d, "QQQ", as_of))

\* the signal for a score of 3 or more counting as strong
SignalOfScoreLoose(score) ==
    IF score >= ENTRY_MODERATE_THRESHOLD THEN STRONG_ENTRY
    ELSE NO_ENTRY

\* the signal of entry_signal for a score out of 4
SignalOfScore(score) ==
    IF score >= ENTRY_STRONG_THRESHOLD THEN STRONG_ENTRY
    ELSE IF score >= ENTRY_MODERATE_THRESHOLD THEN MODERATE_ENTRY
    ELSE NO_ENTRY

\* entry_signal from "score = sum([...])" on, for the four pillar outcomes
EntryOf(stage_ok, trend, vol, volume) ==
    [signal |-> SignalOfScore(CountTrue(<< stage_ok, trend, vol, volume >>)),
     score |-> CountTrue(<< stage_ok, trend, vol, volume >>),
     pillar_results |-> [stage |-> stage_ok, trend |-> trend,
                         volatility |-> vol, volume |-> volume]]

\* entry_signal for a stage_info that is given (a caller passing None has
\* called determine_stage first)
entry_signal(d, symbol, direction, stage_info, as_of) ==
    EntryOf(IF direction = LONG THEN stage_info.stage = STAGE_2
            ELSE stage_info.stage = STAGE_4,
            trend_check(d, symbol, direction, as_of).favorable,
            volatility_check(d, direction, symbol, as_of).favorable,
            volume_check(d, direction, as_of).favorable)

\* the VIX emergency test of asset_rotation and check_exits; a row of
\* vix_indicators always has its close (the vix table's close is NOT NULL)
VixEmergency(vix) ==
    /\ NotNull(vix)
    /\ Val(vix).row.vix_close > VIX_EMERGENCY_LEVEL
    /\ Val(vix).row.vix_trend = Some("RISING")

\* get_all_stages, given the result of determine_stage for every analysis
\* symbol on the store it was called with: a call reads and writes only the
\* rows of its own symbol, so the calls made in turn return these results and
\* leave a stages table that has each symbol's column from its own call
AllStages(results) ==
    [info |-> results, stages |-> [s \in AnalysisSet |-> results[s].stages[s]]]

get_all_stages(d, as_of) ==
    AllStages([s \in AnalysisSet |-> determine_stage(d, s, as_of)])

Rotation(asset, direction, tier, signal_strength) ==
    [asset |-> asset, direction |-> direction, tier |-> tier,
     signal_strength |-> signal_strength]

HoldCash == Rotation(CASH_SYMBOL, HOLD, 4, NO_ENTRY)

Accepts(sig) == sig.signal \in {STRONG_ENTRY, MODERATE_ENTRY}

\* the tiers with bonds tried before equities inverse
RotationTiersBondsFirst(stages, equity, sig) ==
    IF (stages["SPY"].stage = STAGE_2 \/ stages["QQQ"].stage = STAGE_2) /\ Accepts(sig[1])
    THEN Rotation(equity, LONG, 1, sig[1].signal)
    ELSE IF stages["TLT"].stage = STAGE_2 /\ Accepts(sig[3])
    THEN Rotation("TLT", LONG, 2, sig[3].signal)
    ELSE IF stages["SPY"].stage = STAGE_4 /\ Accepts(sig[2])
    THEN Rotation(EQUITY_INVERSE_SPY, LONG_INVERSE, 1, sig[2].signal)
    ELSE IF stages["UUP"].stage = STAGE_2 /\ Accepts(sig[4])
    THEN Rotation("UUP", LONG, 3, sig[4].signal)
    ELSE IF stages["UUP"].stage = STAGE_4 /\ stages["UDN"].stage = STAGE_2 /\ Accepts(sig[5])
    THEN Rotation("UDN", LONG, 3, sig[5].signal)
    ELSE HoldCash

\* the tiers of asset_rotation, for the stage dicts of get_all_stages, the
\* equity picked and the entry signals of the five candidates in the order
\* the code asks for them (an entry signal has no effect on the store, so one
\* that the code does not ask for is simply not used)
RotationTiers(stages, equity, sig) ==
    IF (stages["SPY"].stage = STAGE_2 \/ stages["QQQ"].stage = STAGE_2) /\ Accepts(sig[1])
    THEN Rotation(equity, LONG, 1, sig[1].signal)
    ELSE IF stages["SPY"].stage = STAGE_4 /\ Accepts(sig[2])
    THEN Rotation(EQUITY_INVERSE_SPY, LONG_INVERSE, 1, sig[2].signal)
    ELSE IF stages["TLT"].stage = STAGE_2 /\ Accepts(sig[3])
    THEN Rotation("TLT", LONG, 2, sig[3].signal)
    ELSE IF stages["UUP"].stage = STAGE_2 /\ Accepts(sig[4])
    THEN Rotation("UUP", LONG, 3, sig[4].signal)
    ELSE IF stages["UUP"].stage = STAGE_4 /\ stages["UDN"].stage = STAGE_2 /\ Accepts(sig[5])
    THEN Rotation("UDN", LONG, 3, sig[5].signal)
    ELSE HoldCash

\* the candidates of the tiers in order: the symbol the entry signal is asked
\* for, and the direction
Candidates(equity) ==
    << [symbol |-> equity, direction |-> LONG],
       [symbol |-> "SPY", direction |-> LONG_INVERSE],
       [symbol |-> "TLT", direction |-> LONG],
       [symbol |-> "UUP", direction |-> LONG],
       [symbol |-> "UDN", direction |-> LONG] >>

\* asset_rotation after get_all_stages returned all and equity_pick equity
RotationOn(d, as_of, all, equity) ==
    [rotation |->
        RotationTiers(all.info, equity,
                      [k \in 1..5 |-> entry_signal(d, Candidates(equity)[k].symbol,
                                                   Candidates(equity)[k].direction,
                                                   all.info[Candidates(equity)[k].symbol],
                                                   as_of)]),
     stages |-> all.stages]

\* asset_rotation without its VIX emergency gate
asset_rotation_no_gate(d, as_of) ==
    RotationOn(d, as_of, get_all_stages(d, as_of), equity_pick(d, as_of))

\* asset_rotation: the dict returned (field rotation) and the stages table
\* after the call; the VIX gate returns before get_all_stages runs
asset_rotation(d, as_of) ==
    IF VixEmergency(get_latest_vix(d, as_of))
    THEN [rotation |-> HoldCash, stages |-> d.stages]
    ELSE RotationOn(d, as_of, get_all_stages(d, as_of), equity_pick(d, as_of))

\* max(1, int(days * 5 / 7)) for the calendar days between two dates; a step
\* of the date ordinal is DaysPerStep calendar days
DaysPerStep == 2

CalendarDays(start_date, end_date) == (end_date - start_date) * DaysPerStep

TruncDiv(a, b) == IF a >= 0 THEN a \div b ELSE -((-a) \div b)

business_days_between(start_date, end_date) ==
    Max2(1, TruncDiv(CalendarDays(start_date, end_date) * 5, 7))

\* _atr_stop with the ATR distance taken as it is
AtrStopUnclamped(entry_price, atr, fixed_pct, inverse) ==
    IF USE_ATR_STOPS /\ NotNull(atr) /\ Val(atr) # 0 /\ Val(atr) > 0
    THEN entry_price * 1000 - ATR_MULTIPLIER * Val(atr) * 1000
    ELSE entry_price * (1000 - fixed_pct)

\* _atr_stop: the stop price in thousandths; atr is NULL or << integer >>
atr_stop(entry_price, atr, fixed_pct, inverse) ==
    IF USE_ATR_STOPS /\ NotNull(atr) /\ Val(atr) # 0 /\ Val(atr) > 0
    THEN LET raw_distance == ATR_MULTIPLIER * Val(atr) * 1000
             max_distance == IF ~inverse THEN entry_price * ATR_MAX_STOP_PCT
                             ELSE (entry_price * MAX_STOP_PCT_INVERSE * 3) \div 2
             min_distance == entry_price * ATR_MIN_STOP_PCT
             distance == Max2(min_distance, Min2(raw_distance, max_distance))
         IN entry_price * 1000 - distance
    ELSE entry_price * (1000 - fixed_pct)

\* calc_trade_params with the stage tested before the direction
CalcTradeParamsStageFirst(entry_price, direction, stage, atr) ==
    IF stage = STAGE_3
    THEN [initial_stop |-> atr_stop(entry_price, atr, MAX_STOP_PCT, FALSE),
          first_target |-> entry_price * (1000 + FIRST_TARGET_PCT_STAGE3),
          trailing_pct |-> TRAILING_STOP_PCT,
          partial_exit_pct |-> PARTIAL_EXIT_PCT_STAGE3, trade_type |-> "STAGE3"]
    ELSE IF direction = LONG_INVERSE
    THEN [initial_stop |-> atr_stop(entry_price, atr, MAX_STOP_PCT_INVERSE, TRUE),
          first_target |-> entry_price * (1000 + FIRST_TARGET_PCT_INVERSE),
          trailing_pct |-> TRAILING_STOP_PCT_INVERSE,
          partial_exit_pct |-> PARTIAL_EXIT_PCT_INVERSE, trade_type |-> "INVERSE"]
    ELSE [initial_stop |-> atr_stop(entry_price, atr, MAX_STOP_PCT, FALSE),
          first_target |-> entry_price * (1000 + FIRST_TARGET_PCT),
          trailing_pct |-> TRAILING_STOP_PCT,
          partial_exit_pct |-> PARTIAL_EXIT_PCT_STAGE2, trade_type |-> "STANDARD"]

calc_trade_params(entry_price, direction, stage, atr) ==
    IF direction = LONG_INVERSE
    THEN [initial_stop |-> atr_stop(entry_price, atr, MAX_STOP_PCT_INVERSE, TRUE),
          first_target |-> entry_price * (1000 + FIRST_TARGET_PCT_INVERSE),
          trailing_pct |-> TRAILING_STOP_PCT_INVERSE,
          partial_exit_pct |-> PARTIAL_EXIT_PCT_INVERSE, trade_type |-> "INVERSE"]
    ELSE IF stage = STAGE_3
    THEN [initial_stop |-> atr_stop(entry_price, atr, MAX_STOP_PCT, FALSE),
          first_target |-> entry_price * (1000 + FIRST_TARGET_PCT_STAGE3),
          trailing_pct |-> TRAILING_STOP_PCT,
          partial_exit_pct |-> PARTIAL_EXIT_PCT_STAGE3, trade_type |-> "STAGE3"]
    ELSE [initial_stop |-> atr_stop(entry_price, atr, MAX_STOP_PCT, FALSE),
          first_target |-> entry_price * (1000 + FIRST_TARGET_PCT),
          trailing_pct |-> TRAILING_STOP_PCT,
          partial_exit_pct |-> PARTIAL_EXIT_PCT_STAGE2, trade_type |-> "STANDARD"]

\* an exit signal; exit_pct is in hundredths, new_stop in thousandths
ExitSignal(action, reason, exit_pct, new_stop) ==
    [action |-> action, reason |-> reason, exit_pct |-> exit_pct, new_stop |-> new_stop]

\* priority 3 leaving a long position open through a topping stage
StageFlipOnDecline(direction, stage) ==
    \/ direction = LONG /\ stage = STAGE_4
    \/ direction = LONG_INVERSE /\ stage \in {STAGE_1, STAGE_2}

\* priority 3 of check_exits
StageFlip(direction, stage) ==
    \/ direction = LONG /\ stage \in {STAGE_3, STAGE_4}
    \/ direction = LONG_INVERSE /\ stage \in {STAGE_1, STAGE_2}

\* priorities 4 and 5 with the trailing update returned at the level of the
\* current stop as well
TargetOrTrailAtLevel(position, current_close, current_date) ==
    IF ~position.partial_exited /\ current_close * 1000 >= position.first_target
    THEN LET days == business_days_between(position.entry_date, current_date)
             exit_pct == IF days <= SPEED_CHECK_DAYS
                         THEN Min2(position.partial_exit_pct + SPEED_CHECK_EXTRA_PCT,
                                   SPEED_CHECK_MAX_PCT)
                         ELSE position.partial_exit_pct
         IN Some(ExitSignal("PARTIAL_EXIT", "TARGET_HIT", Some(exit_pct), NULL))
    ELSE IF position.partial_exited
            /\ current_close * (1000 - position.trailing_pct) >= position.stop
    THEN Some(ExitSignal("UPDATE_STOP", "TRAILING_STOP", NULL,
                         Some(current_close * (1000 - position.trailing_pct))))
    ELSE NULL

\* priorities 4 and 5 with the stop trailed before the partial exit as well
TargetOrTrailBeforePartial(position, current_close, current_date) ==
    IF ~position.partial_exited /\ current_close * 1000 >= position.first_target
    THEN LET days == business_days_between(position.entry_date, current_date)
             exit_pct == IF days <= SPEED_CHECK_DAYS
                         THEN Min2(position.partial_exit_pct + SPEED_CHECK_EXTRA_PCT,
                                   SPEED_CHECK_MAX_PCT)
                         ELSE position.partial_exit_pct
         IN Some(ExitSignal("PARTIAL_EXIT", "TARGET_HIT", Some(exit_pct), NULL))
    ELSE IF current_close * (1000 - position.trailing_pct) > position.stop
    THEN Some(ExitSignal("UPDATE_STOP", "TRAILING_STOP", NULL,
                         Some(current_close * (1000 - position.trailing_pct))))
    ELSE NULL

\* priorities 4 and 5 with the target tested on partly exited positions too
TargetOrTrailRepeating(position, current_close, current_date) ==
    IF current_close * 1000 >= position.first_target
    THEN LET days == business_days_between(position.entry_date, current_date)
             exit_pct == IF days <= SPEED_CHECK_DAYS
                         THEN Min2(position.partial_exit_pct + SPEED_CHECK_EXTRA_PCT,
                                   SPEED_CHECK_MAX_PCT)
                         ELSE position.partial_exit_pct
         IN Some(ExitSignal("PARTIAL_EXIT", "TARGET_HIT", Some(exit_pct), NULL))
    ELSE IF position.partial_exited
            /\ current_close * (1000 - position.trailing_pct) > position.stop
    THEN Some(ExitSignal("UPDATE_STOP", "TRAILING_STOP", NULL,
                         Some(current_close * (1000 - position.trailing_pct))))
    ELSE NULL

\* priorities 4 and 5 of check_exits
TargetOrTrail(position, current_close, current_date) ==
    IF ~position.partial_exited /\ current_close * 1000 >= position.first_target
    THEN LET days == business_days_between(position.entry_date, current_date)
             exit_pct == IF days <= SPEED_CHECK_DAYS
                         THEN Min2(position.partial_exit_pct + SPEED_CHECK_EXTRA_PCT,
                                   SPEED_CHECK_MAX_PCT)
                         ELSE position.partial_exit_pct
         IN Some(ExitSignal("PARTIAL_EXIT", "TARGET_HIT", Some(exit_pct), NULL))
    ELSE IF position.partial_exited
            /\ current_close * (1000 - position.trailing_pct) > position.stop
    THEN Some(ExitSignal("UPDATE_STOP", "TRAILING_STOP", NULL,
                         Some(current_close * (1000 - position.trailing_pct))))
    ELSE NULL

\* ExitsOn with the stop tested before the VIX emergency
ExitsOnStopFirst(d, position, current_close, current_date, vix, stage_info) ==
    IF current_close * 1000 <= position.stop
    THEN [signal |-> Some(ExitSignal("FULL_EXIT", "STOP_HIT", Some(100), NULL)),
          stages |-> d.stages]
    ELSE IF VixEmergency(vix)
    THEN [signal |-> Some(ExitSignal("FULL_EXIT", "VIX_EMERGENCY", Some(100), NULL)),
          stages |-> d.stages]
    ELSE IF StageFlip(position.direction, stage_info.stage)
    THEN [signal |-> Some(ExitSignal("FULL_EXIT", "STAGE_CHANGE", Some(100), NULL)),
          stages |-> stage_info.stages]
    ELSE [signal |-> TargetOrTrail(position, current_close, current_date),
          stages |-> stage_info.stages]

\* check_exits, given the VIX row it looks up and what determine_stage
\* returns: the signal (NULL is None) and the stages table after the call;
\* determine_stage runs only when priorities 1 and 2 did not return
ExitsOn(d, position, current_close, current_date, vix, stage_info) ==
    IF VixEmergency(vix)
    THEN [signal |-> Some(ExitSignal("FULL_EXIT", "VIX_EMERGENCY", Some(100), NULL)),
          stages |-> d.stages]
    ELSE IF current_close * 1000 <= position.stop
    THEN [signal |-> Some(ExitSignal("FULL_EXIT", "STOP_HIT", Some(100), NULL)),
          stages |-> d.stages]
    ELSE IF StageFlip(position.direction, stage_info.stage)
    THEN [signal |-> Some(ExitSignal("FULL_EXIT", "STAGE_CHANGE", Some(100), NULL)),
          stages |-> stage_info.stages]
    ELSE [signal |-> TargetOrTrail(position, current_close, current_date),
          stages |-> stage_info.stages]

check_exits(d, position, current_close, current_date, symbol, as_of) ==
    ExitsOn(d, position, current_close, current_date, get_latest_vix(d, as_of),
            determine_stage(d, symbol, as_of))

----------------------------------------------------------------------------
(* backtester.py.  Cash, shares and equity are exact fractions             *)
(* [num |-> n, den |-> d] in lowest terms with d > 0 (the code computes    *)
(* them in floating point).  The run record holds the locals of            *)
(* run_backtest and the BacktestResult; a step of the loop body maps a     *)
(* state [db |-> the store, run |-> the run record] to the next one.       *)

RECURSIVE Gcd(_, _)
Gcd(a, b) == IF b = 0 THEN a ELSE Gcd(b, a % b)

Frac(n, d) ==
    [num |-> n \div Gcd(Abs(n), d), den |-> d \div Gcd(Abs(n), d)]

FracOfInt(n) == [num |-> n, den |-> 1]

FracAdd(a, b) == Frac(a.num * b.den + b.num * a.den, a.den * b.den)

FracSub(a, b) == Frac(a.num * b.den - b.num * a.den, a.den * b.den)

\* a * n / d for integers n and d > 0
FracScale(a, n, d) == Frac(a.num * n, a.den * d)

\* round(n / d) to the nearest integer, ties to even (Python's round), d > 0
RoundHalfEven(n, d) ==
    LET q == n \div d
        r == n % d
    IN IF 2 * r < d THEN q
       ELSE IF 2 * r > d THEN q + 1
       ELSE IF q % 2 = 0 THEN q ELSE q + 1

\* pnl_pct cut to 2 decimals instead of rounded
PnlPctTruncated(price, entry_price) ==
    TruncDiv((price - entry_price) * 10000, entry_price)

\* round(pnl_pct, 2), in hundredths of a percent
PnlPct(price, entry_price) == RoundHalfEven((price - entry_price) * 10000, entry_price)

\* _calc_holding_days: calendar days between the two dates
calc_holding_days(entry_date, exit_date) == CalendarDays(entry_date, exit_date)

\* _get_atr: the as-of ATR of a symbol, None when there is no row or the value
\* is missing or 0
get_atr(d, symbol, date) ==
    LET row == LatestRow(d.indicators[symbol], Some(date))
    IN IF NotNull(row) /\ NotNull(Val(row).row.atr_14) /\ Val(Val(row).row.atr_14) # 0
       THEN Val(row).row.atr_14
       ELSE NULL

\* the capital a run starts with
InitialCapital == 1000

COOLDOWN_PERIOD == 1

\* the locals and the result of run_backtest before the first date
NewRun(start_date, end_date, trading_dates) ==
    [phase |-> "run", start_date |-> start_date, end_date |-> end_date,
     trading_dates |-> trading_dates, i |-> 0,
     cash |-> FracOfInt(InitialCapital), position |-> NULL, pending_entry |-> NULL,
     trade_count |-> 0, vix_cooldown |-> FALSE, cooldown_days |-> 0,
     trades |-> << >>, equity_curve |-> << >>, daily_log |-> << >>,
     final_capital |-> FracOfInt(0)]

\* the dates of ds in ascending order
RECURSIVE SortedDates(_)
SortedDates(ds) ==
    IF ds = {} THEN << >> ELSE << MinOf(ds) >> \o SortedDates(ds \ {MinOf(ds)})

\* SELECT DISTINCT date FROM prices WHERE symbol = 'SPY' AND date >= ? AND
\* date <= ? ORDER BY date ASC
TradingDates(d, start_date, end_date) ==
    SortedDates({x \in Dates : /\ NotNull(d.prices["SPY"][x])
                               /\ x >= start_date /\ x <= end_date})

\* run_backtest up to the loop: with no trading date it returns the empty
\* result, else it computes the stage history and sets the portfolio up
StartRun(d, start_date, end_date, trading_dates) ==
    IF trading_dates = << >>
    THEN [db |-> d,
          run |-> [NewRun(start_date, end_date, trading_dates) EXCEPT
                      !.phase = "done", !.cash = FracOfInt(0)]]
    ELSE [db |-> [d EXCEPT !.stages = compute_stage_history(d)],
          run |-> NewRun(start_date, end_date, trading_dates)]

\* the cooldown checks with the VIX cooldown lifted at the emergency level too
CooldownStepAtLevel(s, vix_data) ==
    LET current_vix == IF NotNull(vix_data) THEN Val(vix_data).row.vix_close ELSE 0
    IN [s EXCEPT
          !.run.vix_cooldown = IF s.run.vix_cooldown /\ current_vix <= VIX_EMERGENCY_LEVEL
                               THEN FALSE ELSE s.run.vix_cooldown,
          !.run.cooldown_days = IF s.run.cooldown_days > 0 THEN s.run.cooldown_days - 1
                                ELSE s.run.cooldown_days]

\* "VIX cooldown check" and "General cooldown countdown"
CooldownStep(s, vix_data) ==
    LET current_vix == IF NotNull(vix_data) THEN Val(vix_data).row.vix_close ELSE 0
    IN [s EXCEPT
          !.run.vix_cooldown = IF s.run.vix_cooldown /\ current_vix < VIX_EMERGENCY_LEVEL
                               THEN FALSE ELSE s.run.vix_cooldown,
          !.run.cooldown_days = IF s.run.cooldown_days > 0 THEN s.run.cooldown_days - 1
                                ELSE s.run.cooldown_days]

\* FillPrice without the fallback to the close
FillPriceOpenOnly(open, close) == open

\* the price a pending entry is filled at: the open, the close when the open
\* is missing or not positive
FillPrice(open, close) ==
    IF IsNull(open) \/ Val(open) <= 0 THEN close ELSE open

\* a position as STEP 1 opens it
OpenedPosition(pending_entry, date, entry_price, shares, params) ==
    [symbol |-> pending_entry.asset, underlying |-> pending_entry.underlying,
     direction |-> pending_entry.direction, tier |-> pending_entry.tier,
     entry_date |-> date, entry_price |-> entry_price,
     shares |-> shares, stop |-> params.initial_stop,
     first_target |-> params.first_target, trailing_pct |-> params.trailing_pct,
     partial_exit_pct |-> params.partial_exit_pct, trade_type |-> params.trade_type,
     partial_exited |-> FALSE]

\* STEP 1 once the entry price (NULL: none) and the ATR are looked up
EnterAt(s, date, entry_price, atr_val) ==
    IF NotNull(entry_price) /\ Val(entry_price) > 0
    THEN [s EXCEPT
            !.run.position =
                Some(OpenedPosition(Val(s.run.pending_entry), date, Val(entry_price),
                                    FracScale(s.run.cash, 1, Val(entry_price)),
                                    calc_trade_params(Val(entry_price),
                                                      Val(s.run.pending_entry).direction,
                                                      Val(s.run.pending_entry).stage,
                                                      atr_val))),
            !.run.cash = FracOfInt(0),
            !.run.trade_count = s.run.trade_count + 1,
            !.run.pending_entry = NULL]
    ELSE [s EXCEPT !.run.pending_entry = NULL]

\* STEP 1: execute the pending entry
FillPending(s, date) ==
    IF IsNull(s.run.pending_entry) THEN s
    ELSE IF s.run.vix_cooldown THEN [s EXCEPT !.run.pending_entry = NULL]
    ELSE EnterAt(s, date,
                 FillPrice(get_open(s.db, Val(s.run.pending_entry).asset, date),
                           get_close(s.db, Val(s.run.pending_entry).asset, date)),
                 get_atr(s.db, Val(s.run.pending_entry).underlying, date))

\* an entry of result.trades
ClosedTrade(trade_count, position, exit_date, exit_price, exit_reason) ==
    [trade_num |-> trade_count, symbol |-> position.symbol,
     direction |-> position.direction, tier |-> position.tier,
     entry_date |-> position.entry_date, entry_price |-> position.entry_price,
     exit_date |-> exit_date, exit_price |-> exit_price, exit_reason |-> exit_reason,
     pnl_pct |-> PnlPct(exit_price, position.entry_price),
     holding_days |-> calc_holding_days(position.entry_date, exit_date),
     status |-> "CLOSED"]

\* STEP 2 with a partial exit that credits the sale and keeps the shares
ApplyExitKeepingShares(s, date, current_close, sig) ==
    IF sig.action = "FULL_EXIT"
    THEN [s EXCEPT
            !.run.cash = FracAdd(s.run.cash,
                                 FracScale(Val(s.run.position).shares, current_close, 1)),
            !.run.trades = Append(s.run.trades,
                                  ClosedTrade(s.run.trade_count, Val(s.run.position), date,
                                              current_close, sig.reason)),
            !.run.vix_cooldown = IF sig.reason = "VIX_EMERGENCY" THEN TRUE
                                 ELSE s.run.vix_cooldown,
            !.run.cooldown_days = COOLDOWN_PERIOD,
            !.run.position = NULL]
    ELSE IF sig.action = "PARTIAL_EXIT"
    THEN LET shares_to_sell == FracScale(Val(s.run.position).shares, Val(sig.exit_pct), 100)
         IN [s EXCEPT
               !.run.cash = FracAdd(s.run.cash, FracScale(shares_to_sell, current_close, 1)),
               !.run.position =
                   Some([Val(s.run.position) EXCEPT
                            !.partial_exited = TRUE,
                            !.stop = Val(s.run.position).entry_price * 1000])]
    ELSE IF sig.action = "UPDATE_STOP"
    THEN [s EXCEPT !.run.position = Some([Val(s.run.position) EXCEPT
                                             !.stop = Val(sig.new_stop)])]
    ELSE s

\* STEP 2, "if exit_signal:" with the signal sig of check_exits
ApplyExit(s, date, current_close, sig) ==
    IF sig.action = "FULL_EXIT"
    THEN [s EXCEPT
            !.run.cash = FracAdd(s.run.cash,
                                 FracScale(Val(s.run.position).shares, current_close, 1)),
            !.run.trades = Append(s.run.trades,
                                  ClosedTrade(s.run.trade_count, Val(s.run.position), date,
                                              current_close, sig.reason)),
            !.run.vix_cooldown = IF sig.reason = "VIX_EMERGENCY" THEN TRUE
                                 ELSE s.run.vix_cooldown,
            !.run.cooldown_days = COOLDOWN_PERIOD,
            !.run.position = NULL]
    ELSE IF sig.action = "PARTIAL_EXIT"
    THEN LET shares_to_sell == FracScale(Val(s.run.position).shares, Val(sig.exit_pct), 100)
         IN [s EXCEPT
               !.run.cash = FracAdd(s.run.cash, FracScale(shares_to_sell, current_close, 1)),
               !.run.position =
                   Some([Val(s.run.position) EXCEPT
                            !.shares = FracSub(Val(s.run.position).shares, shares_to_sell),
                            !.partial_exited = TRUE,
                            !.stop = Val(s.run.position).entry_price * 1000])]
    ELSE IF sig.action = "UPDATE_STOP"
    THEN [s EXCEPT !.run.position = Some([Val(s.run.position) EXCEPT
                                             !.stop = Val(sig.new_stop)])]
    ELSE s

\* STEP 2 after check_exits returned r (its signal, the stages table it left)
ExitChecked(s, date, current_close, r) ==
    IF NotNull(r.signal)
    THEN ApplyExit([s EXCEPT !.db.stages = r.stages], date, current_close, Val(r.signal))
    ELSE [s EXCEPT !.db.stages = r.stages]

\* STEP 2 once the close of the position's symbol is looked up
ExitsAtClose(s, date, current_close) ==
    IF NotNull(current_close)
    THEN ExitChecked(s, date, Val(current_close),
                     check_exits(s.db, Val(s.run.position), Val(current_close), date,
                                 Val(s.run.position).underlying, Some(date)))
    ELSE s

\* STEP 2 checking exits on the entry day as well
CheckPositionOnEntryDay(s, date) ==
    IF NotNull(s.run.position)
    THEN ExitsAtClose(s, date, get_close(s.db, Val(s.run.position).symbol, date))
    ELSE s

\* STEP 2: if positioned, check exits (skip on entry day)
CheckPosition(s, date) ==
    IF NotNull(s.run.position) /\ Val(s.run.position).entry_date # date
    THEN ExitsAtClose(s, date, get_close(s.db, Val(s.run.position).symbol, date))
    ELSE s

\* STEP 3 after determine_stage(underlying) returned stage_info
Pend(s, date, rotation, underlying, stage_info) ==
    [s EXCEPT
        !.db.stages = stage_info.stages,
        !.run.pending_entry =
            Some([asset |-> rotation.asset, underlying |-> underlying,
                  direction |-> rotation.direction, tier |-> rotation.tier,
                  signal_strength |-> rotation.signal_strength,
                  stage |-> stage_info.stage, signal_date |-> date])]

\* the symbol whose stage the pending entry records
UnderlyingOf(rotation) ==
    IF rotation.direction = LONG THEN rotation.asset ELSE "SPY"

\* STEP 3 after asset_rotation returned r (its rotation, the stages it left)
Rotated(s, date, r) ==
    IF r.rotation.direction # HOLD /\ r.rotation.signal_strength # NO_ENTRY
    THEN Pend(s, date, r.rotation, UnderlyingOf(r.rotation),
              determine_stage([s.db EXCEPT !.stages = r.stages],
                              UnderlyingOf(r.rotation), Some(date)))
    ELSE [s EXCEPT !.db.stages = r.stages]

\* STEP 3 looking for entries without asking whether a position is open
SeekEntryWhilePositioned(s, date) ==
    IF /\ IsNull(s.run.pending_entry)
       /\ ~s.run.vix_cooldown /\ s.run.cooldown_days <= 0
    THEN Rotated(s, date, asset_rotation(s.db, Some(date)))
    ELSE s

\* STEP 3 looking for entries without regard to the cooldown countdown
SeekEntryDuringCooldown(s, date) ==
    IF /\ IsNull(s.run.position) /\ IsNull(s.run.pending_entry)
       /\ ~s.run.vix_cooldown
    THEN Rotated(s, date, asset_rotation(s.db, Some(date)))
    ELSE s

\* STEP 3 looking for entries without regard to the VIX cooldown
SeekEntryDuringVixCooldown(s, date) ==
    IF /\ IsNull(s.run.position) /\ IsNull(s.run.pending_entry)
       /\ s.run.cooldown_days <= 0
    THEN Rotated(s, date, asset_rotation(s.db, Some(date)))
    ELSE s

\* STEP 3: if in cash, check for entries
SeekEntry(s, date) ==
    IF /\ IsNull(s.run.position) /\ IsNull(s.run.pending_entry)
       /\ ~s.run.vix_cooldown /\ s.run.cooldown_days <= 0
    THEN Rotated(s, date, asset_rotation(s.db, Some(date)))
    ELSE s

\* STEP 4, the equity of the day: pos_close is NULL when the position holds
\* no shares to value or has no close
DayEquity(cash, position, pos_close) ==
    IF NotNull(position) /\ Val(position).shares.num > 0
       /\ NotNull(pos_close) /\ Val(pos_close) # 0
    THEN FracAdd(cash, FracScale(Val(position).shares, Val(pos_close), 1))
    ELSE cash

\* STEP 4 for the equity computed
Logged(s, date, equity) ==
    [s EXCEPT
        !.run.equity_curve = Append(s.run.equity_curve, [date |-> date, equity |-> equity]),
        !.run.daily_log =
            Append(s.run.daily_log,
                   [date |-> date,
                    state |-> IF IsNull(s.run.position) /\ IsNull(s.run.pending_entry)
                              THEN "CASH"
                              ELSE IF NotNull(s.run.pending_entry) THEN "ENTERING"
                              ELSE "POSITIONED",
                    equity |-> equity,
                    position |-> IF NotNull(s.run.position)
                                 THEN Some(Val(s.run.position).symbol) ELSE NULL])]

\* STEP 4: calculate equity and log
LogEquity(s, date) ==
    Logged(s, date,
           DayEquity(s.run.cash, s.run.position,
                    IF NotNull(s.run.position)
                    THEN get_close(s.db, Val(s.run.position).symbol, date) ELSE NULL))

\* the loop body with STEP 3 run before STEP 1
LoopBodySignalFirst(s, date) ==
    LogEquity(
        CheckPosition(
            FillPending(
                SeekEntry(CooldownStep(s, get_latest_vix(s.db, Some(date))), date),
                date),
            date),
        date)

\* the body of "for i, date in enumerate(trading_dates)"
LoopBody(s, date) ==
    LogEquity(
        SeekEntry(
            CheckPosition(
                FillPending(CooldownStep(s, get_latest_vix(s.db, Some(date))), date),
                date),
            date),
        date)

\* "Close any remaining position at final price" for the close looked up
ClosedOut(run, final_date, final_close) ==
    IF NotNull(final_close) /\ Val(final_close) # 0
    THEN [run EXCEPT
            !.cash = FracAdd(run.cash,
                             FracScale(Val(run.position).shares, Val(final_close), 1)),
            !.trades = Append(run.trades,
                              ClosedTrade(run.trade_count, Val(run.position), final_date,
                                          Val(final_close), "BACKTEST_END"))]
    ELSE run

\* run_backtest after the loop: close what remains, set final_capital, return
EndRun(d, run) ==
    [(IF NotNull(run.position) /\ Val(run.position).shares.num > 0
      THEN ClosedOut(run, run.trading_dates[Len(run.trading_dates)],
                     get_close(d, Val(run.position).symbol,
                               run.trading_dates[Len(run.trading_dates)]))
      ELSE run)
     EXCEPT !.phase = "done",
            !.final_capital = run.equity_curve[Len(run.equity_curve)].equity]

----------------------------------------------------------------------------
(* indicators.py: the pure calculations.  A series is a sequence of NULL   *)
(* (NaN) or << integer >>; a mean is NULL or << an exact fraction >>.      *)

RECURSIVE SumOfValues(_)
SumOfValues(obs) == IF obs = << >> THEN 0 ELSE Val(Head(obs)) + SumOfValues(Tail(obs))

\* series.rolling(window, min_periods).mean() at index i (from 1): the mean
\* of the observations among the last window entries when there are at
\* least min_periods of them
RollingMean(series, i, window, min_periods) ==
    LET obs == SelectSeq(SubSeq(series, Max2(1, i - window + 1), i), NotNull)
    IN IF Len(obs) >= min_periods /\ Len(obs) > 0
       THEN Some(Frac(SumOfValues(obs), Len(obs)))
       ELSE NULL

\* the rolling mean with min_periods = 1
CalcSmaFromFirst(series, period) ==
    [i \in 1..Len(series) |-> RollingMean(series, i, period, 1)]

\* calc_sma(series, period)
calc_sma(series, period) ==
    [i \in 1..Len(series) |-> RollingMean(series, i, period, period)]

VOLUME_RATIO_MA_PERIOD == 20

\* numerator / denominator of two series entries where 0 in the denominator
\* is taken for 1
RatioZeroAsOne(numerator, denominator) ==
    IF IsNull(numerator) \/ IsNull(denominator) THEN NULL
    ELSE IF Val(denominator) = 0 THEN Some(Frac(Val(numerator), 1))
    ELSE Some(Frac(Val(numerator), Val(denominator)))

\* numerator / denominator.replace(0, np.nan) for one index: NaN when either
\* is NaN or the denominator is 0
SafeRatio(numerator, denominator) ==
    IF IsNull(numerator) \/ IsNull(denominator) \/ Val(denominator) = 0 THEN NULL
    ELSE Some(Frac(Val(numerator), Val(denominator)))

RECURSIVE SumOfFractions(_)
SumOfFractions(obs) ==
    IF obs = << >> THEN FracOfInt(0) ELSE FracAdd(Val(Head(obs)), SumOfFractions(Tail(obs)))

\* calc_sma over a series of fractions
SmaOfFractions(series, period) ==
    [i \in 1..Len(series) |->
        LET obs == SelectSeq(SubSeq(series, Max2(1, i - period + 1), i), NotNull)
        IN IF Len(obs) >= period /\ Len(obs) > 0
           THEN Some(FracScale(SumOfFractions(obs), 1, Len(obs)))
           ELSE NULL]

\* the frame of calc_volume_ratios once the two ratio columns are computed
VolumeFrame(panic_ratio, fomo_ratio, panic_ratio_ma, fomo_ratio_ma) ==
    [i \in DOMAIN panic_ratio |->
        [panic_ratio |-> panic_ratio[i], fomo_ratio |-> fomo_ratio[i],
         panic_ratio_ma |-> panic_ratio_ma[i], fomo_ratio_ma |-> fomo_ratio_ma[i]]]

VolumeRatiosOf(panic_ratio, fomo_ratio) ==
    VolumeFrame(panic_ratio, fomo_ratio,
                SmaOfFractions(panic_ratio, VOLUME_RATIO_MA_PERIOD),
                SmaOfFractions(fomo_ratio, VOLUME_RATIO_MA_PERIOD))

\* calc_volume_ratios(up_volume_series, down_volume_series), the two series
\* on the same dates
calc_volume_ratios(up_volume_series, down_volume_series) ==
    VolumeRatiosOf([i \in DOMAIN up_volume_series |->
                       SafeRatio(down_volume_series[i], up_volume_series[i])],
                   [i \in DOMAIN up_volume_series |->
                       SafeRatio(up_volume_series[i], down_volume_series[i])])

----------------------------------------------------------------------------
(* The indicators that divide.  A float result is NULL (NaN) or            *)
(* << [inf, q] >>: inf is 0 for the finite value q, 1 for +inf and -1 for  *)
(* -inf.  A result that carries the rolling standard deviation is          *)
(* << [inf, r, c, v] >>, the value r + c * sqrt(v) for the variance v.     *)

BB_PERIOD == 20

BB_STD_DEV == 2

SLOPE_LOOKBACK == 20

RELATIVE_STRENGTH_SMA == 50

Sign(x) == IF x > 0 THEN 1 ELSE IF x < 0 THEN -1 ELSE 0

\* a / b for fractions, b not 0
FracDiv(a, b) == Frac(a.num * b.den * Sign(b.num), a.den * Abs(b.num))

Finite(q) == [inf |-> 0, q |-> q]

Infinite(sign) == [inf |-> sign, q |-> FracOfInt(0)]

\* a / b in floating point: x / 0 is an infinity, 0 / 0 is NaN
FloatDivide(a, b) ==
    IF b.num = 0
    THEN (IF a.num = 0 THEN NULL ELSE Some(Infinite(Sign(a.num))))
    ELSE Some(Finite(FracDiv(a, b)))

\* x * 100 for a float result
Times100(x) ==
    IF IsNull(x) THEN NULL
    ELSE Some([Val(x) EXCEPT !.q = FracScale(Val(x).q, 100, 1)])

\* series.shift(lookback)
Shifted(series, lookback) ==
    [i \in DOMAIN series |-> IF i > lookback THEN series[i - lookback] ELSE NULL]

\* ((sma_series - prior) / prior) * 100 for one index
SlopeAt(current, prior) ==
    IF IsNull(current) \/ IsNull(prior) THEN NULL
    ELSE Times100(FloatDivide(FracSub(Val(current), Val(prior)), Val(prior)))

SlopeOver(sma_series, prior) ==
    [i \in DOMAIN sma_series |-> SlopeAt(sma_series[i], prior[i])]

\* calc_sma_slope(sma_series, lookback); sma_series holds fractions
calc_sma_slope(sma_series, lookback) == SlopeOver(sma_series, Shifted(sma_series, lookback))

\* ((close - sma) / sma) * 100 for one index
StrengthAt(close, sma) ==
    IF IsNull(close) \/ IsNull(sma) THEN NULL
    ELSE Times100(FloatDivide(FracSub(FracOfInt(Val(close)), Val(sma)), Val(sma)))

StrengthOver(close_series, sma) ==
    [i \in DOMAIN close_series |-> StrengthAt(close_series[i], sma[i])]

\* calc_relative_strength(close_series, sma_period)
calc_relative_strength(close_series, sma_period) ==
    StrengthOver(close_series, calc_sma(close_series, sma_period))

RECURSIVE SumOfSquares(_, _)
SumOfSquares(obs, mean) ==
    IF obs = << >> THEN FracOfInt(0)
    ELSE LET dev == FracSub(FracOfInt(Val(Head(obs))), mean)
         IN FracAdd(FracScale(dev, dev.num, dev.den), SumOfSquares(Tail(obs), mean))

\* the square of series.rolling(window, min_periods=window).std() at index i:
\* the sample variance (ddof = 1) of a full window, else NaN
RollingVariance(series, i, window) ==
    LET obs == SelectSeq(SubSeq(series, Max2(1, i - window + 1), i), NotNull)
    IN IF Len(obs) >= window /\ Len(obs) > 1
       THEN Some(FracScale(SumOfSquares(obs, Frac(SumOfValues(obs), Len(obs))),
                           1, Len(obs) - 1))
       ELSE NULL

\* middle + coefficient * std
Band(middle, coefficient, variance) ==
    IF IsNull(middle) \/ IsNull(variance) THEN NULL
    ELSE Some([inf |-> 0, r |-> Val(middle), c |-> FracOfInt(coefficient),
               v |-> Val(variance)])

\* ((upper - lower) / middle) * 100: the numerator is 2 * num_std * std
Bandwidth(middle, num_std, variance) ==
    IF IsNull(middle) \/ IsNull(variance) THEN NULL
    ELSE IF Val(middle).num = 0
    THEN (IF Val(variance).num = 0 THEN NULL
          ELSE Some([inf |-> 1, r |-> FracOfInt(0), c |-> FracOfInt(0),
                     v |-> FracOfInt(0)]))
    ELSE Some([inf |-> 0, r |-> FracOfInt(0),
               c |-> FracDiv(FracOfInt(2 * num_std * 100), Val(middle)),
               v |-> Val(variance)])

\* (close - lower) / band_range.replace(0, np.nan), which is
\* 1/2 + (close - middle) / (2 * num_std * std)
PercentB(close, middle, num_std, variance) ==
    IF IsNull(close) \/ IsNull(middle) \/ IsNull(variance) THEN NULL
    ELSE IF Val(variance).num = 0 THEN NULL
    ELSE Some([inf |-> 0, r |-> Frac(1, 2),
               c |-> FracDiv(FracSub(FracOfInt(Val(close)), Val(middle)),
                             FracScale(Val(variance), 2 * num_std, 1)),
               v |-> Val(variance)])

BandsAt(close, middle, num_std, variance) ==
    [middle |-> middle, variance |-> variance,
     upper |-> Band(middle, num_std, variance),
     lower |-> Band(middle, -num_std, variance),
     bandwidth |-> Bandwidth(middle, num_std, variance),
     percent_b |-> PercentB(close, middle, num_std, variance)]

BandsOver(close_series, middle, period, num_std) ==
    [i \in DOMAIN close_series |->
        BandsAt(close_series[i], middle[i], num_std,
                RollingVariance(close_series, i, period))]

\* calc_bollinger_bands(close_series, period, num_std), one record per index
calc_bollinger_bands(close_series, period, num_std) ==
    BandsOver(close_series, calc_sma(close_series, period), period, num_std)

----------------------------------------------------------------------------
(* portfolio.py and the position endpoints of app.py.  The live tables are *)
(* [has_stop_order_date, row, trades]: the single portfolio_state row      *)
(* (id = 1), the trades table in insertion order, and whether the          *)
(* portfolio_state table of the database file has the stop_order_date      *)
(* column that save_portfolio_state writes and get_portfolio_state reads   *)
(* (the CREATE TABLE IF NOT EXISTS of database.py does not create it, and  *)
(* leaves an existing table as it is).  A call maps                        *)
(* [db |-> the store, live |-> the live tables] to                         *)
(* [s |-> the state after, status |-> the HTTP status, body |-> ...].      *)

STATE_CASH == "CASH"

STATE_ENTERING == "ENTERING"

STATE_POSITIONED == "POSITIONED"

STATE_PARTIAL == "PARTIAL_EXIT"

\* the cash of the row that init_db inserts
LiveInitialCash == 100000

\* INSERT OR IGNORE INTO portfolio_state (id, state, cash, vix_cooldown, ...)
InitialRow ==
    [date |-> NULL, state |-> STATE_CASH, cash |-> FracOfInt(LiveInitialCash),
     symbol |-> NULL, direction |-> NULL, entry_date |-> NULL, entry_price |-> NULL,
     shares |-> NULL, stop_price |-> NULL, target_price |-> NULL,
     trailing_pct |-> NULL, partial_exit_pct |-> NULL, vix_cooldown |-> FALSE,
     stop_order_date |-> NULL]

\* the position dict that get_portfolio_state builds from the row
PositionOfRow(row) ==
    [symbol |-> Val(row.symbol), direction |-> Val(row.direction),
     entry_date |-> Val(row.entry_date), entry_price |-> Val(row.entry_price),
     shares |-> Val(row.shares), stop |-> Val(row.stop_price),
     first_target |-> Val(row.target_price), trailing_pct |-> Val(row.trailing_pct),
     partial_exited |-> row.state = STATE_PARTIAL,
     partial_exit_pct |-> Val(row.partial_exit_pct),
     stop_order_date |-> row.stop_order_date]

\* get_portfolio_state: ok is FALSE when reading the row raises (a position
\* row of a table without the stop_order_date column)
get_portfolio_state(live) ==
    IF live.row.state \in {STATE_POSITIONED, STATE_PARTIAL, STATE_ENTERING}
    THEN IF live.has_stop_order_date
         THEN [ok |-> TRUE, state |-> live.row.state, cash |-> live.row.cash,
               position |-> Some(PositionOfRow(live.row)),
               vix_cooldown |-> live.row.vix_cooldown, date |-> live.row.date]
         ELSE [ok |-> FALSE]
    ELSE [ok |-> TRUE, state |-> live.row.state, cash |-> live.row.cash,
          position |-> NULL, vix_cooldown |-> live.row.vix_cooldown,
          date |-> live.row.date]

\* the row that the UPDATE of save_portfolio_state writes; today is
\* date.today()
RowOfState(state_dict, today) ==
    LET pos == state_dict.position
    IN [date |-> IF NotNull(state_dict.date) THEN state_dict.date ELSE Some(today),
        state |-> state_dict.state, cash |-> state_dict.cash,
        symbol |-> IF NotNull(pos) THEN Some(Val(pos).symbol) ELSE NULL,
        direction |-> IF NotNull(pos) THEN Some(Val(pos).direction) ELSE NULL,
        entry_date |-> IF NotNull(pos) THEN Some(Val(pos).entry_date) ELSE NULL,
        entry_price |-> IF NotNull(pos) THEN Some(Val(pos).entry_price) ELSE NULL,
        shares |-> IF NotNull(pos) THEN Some(Val(pos).shares) ELSE NULL,
        stop_price |-> IF NotNull(pos) THEN Some(Val(pos).stop) ELSE NULL,
        target_price |-> IF NotNull(pos) THEN Some(Val(pos).first_target) ELSE NULL,
        trailing_pct |-> IF NotNull(pos) THEN Some(Val(pos).trailing_pct) ELSE NULL,
        partial_exit_pct |-> IF NotNull(pos) THEN Some(Val(pos).partial_exit_pct)
                             ELSE NULL,
        vix_cooldown |-> state_dict.vix_cooldown,
        stop_order_date |-> IF NotNull(pos) THEN Val(pos).stop_order_date ELSE NULL]

\* the response of a call that raised HTTPException(400, ...)
Refused(s, detail) == [s |-> s, status |-> 400, body |-> [detail |-> detail]]

\* the response of a call in which sqlite3 raised
Crashed(s) == [s |-> s, status |-> 500, body |-> [detail |-> "Internal Server Error"]]

\* save_portfolio_state(state_dict) followed by the return of body: the
\* UPDATE names stop_order_date, so it raises on a table without the column
\* and nothing is written
Saved(s, state_dict, today, body) ==
    IF s.live.has_stop_order_date
    THEN [s |-> [s EXCEPT !.live.row = RowOfState(state_dict, today)],
          status |-> 200, body |-> body]
    ELSE Crashed(s)

\* log_trade: INSERT INTO trades, committed on its own connection
log_trade(s, trade_dict) == [s EXCEPT !.live.trades = Append(s.live.trades, trade_dict)]

\* shares and capital_used of enter_position; shares and capital are NULL
\* or << number >> and 0 counts as not given
Sizing(req, cash) ==
    IF NotNull(req.shares) /\ Val(req.shares) # 0
    THEN [shares |-> FracOfInt(Val(req.shares)),
          capital_used |-> FracOfInt(Val(req.shares) * req.entry_price)]
    ELSE IF NotNull(req.capital) /\ Val(req.capital) # 0
    THEN [shares |-> Frac(Val(req.capital), req.entry_price),
          capital_used |-> FracOfInt(Val(req.capital))]
    ELSE [shares |-> FracScale(cash, 1, req.entry_price), capital_used |-> cash]

\* enter_position once the state is read, the size computed and
\* determine_stage has returned stage_info
Entered(s, req, state, entry_date, size, stage_info, params, today) ==
    Saved([s EXCEPT !.db.stages = stage_info.stages],
          [date |-> Some(entry_date), state |-> STATE_POSITIONED,
           cash |-> FracSub(state.cash, size.capital_used),
           position |-> Some([symbol |-> req.symbol, direction |-> req.direction,
                              entry_date |-> entry_date,
                              entry_price |-> req.entry_price,
                              shares |-> size.shares, stop |-> params.initial_stop,
                              first_target |-> params.first_target,
                              trailing_pct |-> params.trailing_pct,
                              partial_exit_pct |-> params.partial_exit_pct,
                              partial_exited |-> FALSE,
                              stop_order_date |-> Some(entry_date)]),
           vix_cooldown |-> state.vix_cooldown],
          today,
          [action |-> "ENTER", trade_type |-> params.trade_type])

EnterStaged(s, req, state, entry_date, stage_info, today) ==
    Entered(s, req, state, entry_date, Sizing(req, state.cash), stage_info,
            calc_trade_params(req.entry_price, req.direction, stage_info.stage, NULL),
            today)

\* the same call without the guard on the open position
EnterUnguarded(s, req, state, today) ==
    IF ~state.ok THEN Crashed(s)
    ELSE EnterStaged(s, req, state,
                     IF NotNull(req.entry_date) THEN Val(req.entry_date) ELSE today,
                     determine_stage(s.db, req.symbol, NULL), today)

EnterRead(s, req, state, today) ==
    IF ~state.ok THEN Crashed(s)
    ELSE IF NotNull(state.position)
    THEN Refused(s, "Already in a position. Exit first.")
    ELSE EnterStaged(s, req, state,
                     IF NotNull(req.entry_date) THEN Val(req.entry_date) ELSE today,
                     determine_stage(s.db, req.symbol, NULL), today)

\* POST /api/position/enter
enter_position(s, req, today) == EnterRead(s, req, get_portfolio_state(s.live), today)

\* the partial branch of exit_position
ExitPartial(s, req, state, pos, exit_date, shares_sold, today) ==
    Saved(s,
          [date |-> Some(exit_date), state |-> STATE_PARTIAL,
           cash |-> FracAdd(state.cash, FracScale(shares_sold, req.exit_price, 1)),
           position |-> Some([pos EXCEPT !.shares = FracSub(pos.shares, shares_sold),
                                         !.stop = pos.entry_price * 1000,
                                         !.partial_exited = TRUE]),
           vix_cooldown |-> state.vix_cooldown],
          today,
          [action |-> "PARTIAL_EXIT"])

\* the trade that the full branch of exit_position logs; pnl_pct is
\* round(pnl_pct, 2) in hundredths of a percent, pnl_dollar is left exact
LiveTrade(req, pos, exit_date, pnl_pct) ==
    [symbol |-> pos.symbol, direction |-> pos.direction,
     entry_date |-> pos.entry_date, entry_price |-> pos.entry_price,
     exit_date |-> exit_date, exit_price |-> req.exit_price,
     exit_reason |-> req.exit_reason, shares |-> pos.shares,
     pnl_pct |-> pnl_pct,
     pnl_dollar |-> FracScale(pos.shares, req.exit_price - pos.entry_price, 1)]

\* the full branch of exit_position: log the trade, then save the state
ExitFull(s, req, state, pos, exit_date, pnl_pct, today) ==
    Saved(log_trade(s, LiveTrade(req, pos, exit_date, pnl_pct)),
          [date |-> Some(exit_date), state |-> STATE_CASH,
           cash |-> FracAdd(state.cash, FracScale(pos.shares, req.exit_price, 1)),
           position |-> NULL,
           vix_cooldown |-> req.exit_reason = "VIX_EMERGENCY"],
          today,
          [action |-> "FULL_EXIT", pnl_pct |-> pnl_pct])

ExitOpen(s, req, state, pos, exit_date, today) ==
    IF req.partial
    THEN ExitPartial(s, req, state, pos, exit_date,
                     FracScale(pos.shares, pos.partial_exit_pct, 100), today)
    ELSE ExitFull(s, req, state, pos, exit_date,
                  PnlPct(req.exit_price, pos.entry_price), today)

ExitRead(s, req, state, today) ==
    IF ~state.ok THEN Crashed(s)
    ELSE IF IsNull(state.position) THEN Refused(s, "No open position to exit.")
    ELSE ExitOpen(s, req, state, Val(state.position),
                  IF NotNull(req.exit_date) THEN Val(req.exit_date) ELSE today, today)

\* POST /api/position/exit
exit_position(s, req, today) == ExitRead(s, req, get_portfolio_state(s.live), today)

\* the state dict of get_portfolio_state with its position replaced
WithPosition(state, pos) ==
    [date |-> state.date, state |-> state.state, cash |-> state.cash,
     position |-> Some(pos), vix_cooldown |-> state.vix_cooldown]

StopRead(s, new_stop, state, today) ==
    IF ~state.ok THEN Crashed(s)
    ELSE IF IsNull(state.position) THEN Refused(s, "No open position.")
    ELSE Saved(s, WithPosition(state, [Val(state.position) EXCEPT
                                          !.stop = new_stop,
                                          !.stop_order_date = Some(today)]),
               today, [action |-> "UPDATE_STOP"])

\* POST /api/position/update-stop; new_stop is in thousandths
update_stop(s, new_stop, today) ==
    StopRead(s, new_stop, get_portfolio_state(s.live), today)

RenewRead(s, state, today) ==
    IF ~state.ok THEN Crashed(s)
    ELSE IF IsNull(state.position) THEN Refused(s, "No open position.")
    ELSE Saved(s, WithPosition(state, [Val(state.position) EXCEPT
                                          !.stop_order_date = Some(today)]),
               today, [action |-> "RENEW_STOP"])

\* POST /api/position/renew-stop
renew_stop_order(s, today) == RenewRead(s, get_portfolio_state(s.live), today)

----------------------------------------------------------------------------
(* Store contents used by the specifications *)

\* a row of the indicators table (columns the core reads); each argument is
\* NULL or << value >>
IndRow(sma_5, sma_20, sma_50, sma_150, sma_200, s150, s200, s50, pb, rs, atr) ==
    [sma_5 |-> sma_5, sma_20 |-> sma_20, sma_50 |-> sma_50, sma_150 |-> sma_150,
     sma_200 |-> sma_200, sma_150_slope |-> s150, sma_200_slope |-> s200,
     sma_50_slope |-> s50, bb_percent_b |-> pb, relative_strength |-> rs,
     atr_14 |-> atr]

\* a row of the prices table
PriceRow(open, close) == [open |-> open, close |-> close]

\* rising averages below a close of 100: raw STAGE_2
UpRow == IndRow(Some(95), Some(92), Some(90), Some(85), Some(82),
                Some(100), Some(60), Some(120), Some(50), Some(1100), Some(2))

\* falling averages above a close of 100: raw STAGE_4
DownRow == IndRow(Some(105), Some(108), Some(110), Some(115), Some(118),
                  Some(-100), Some(-60), Some(-120), Some(50), Some(-900), Some(2))

\* flat 150-day average, 50-day below it: raw STAGE_3 at a close of 100
FlatTopRow == IndRow(Some(99), Some(99), Some(97), Some(99), Some(98),
                     Some(20), Some(10), Some(-30), Some(50), Some(300), Some(2))

\* flat averages around the close: raw STAGE_1 at a close of 100
BaseRow == IndRow(Some(100), Some(100), Some(101), Some(99), Some(100),
                  Some(20), Some(10), Some(80), Some(50), Some(-100), Some(2))

\* 200 observations but not yet 220: sma_200 present, its slope still NULL
NoSlopeRow == IndRow(Some(95), Some(92), Some(90), Some(85), Some(82),
                     Some(100), NULL, Some(120), Some(50), Some(1100), Some(2))

\* a young series: fewer than 150 observations
YoungRow == IndRow(Some(95), Some(92), Some(90), NULL, NULL,
                   NULL, NULL, Some(120), Some(50), Some(1100), Some(2))

NoRows == [x \in Dates |-> NULL]

EmptyDb ==
    [prices |-> [s \in Symbols |-> NoRows],
     indicators |-> [s \in AnalysisSet |-> NoRows],
     vix_indicators |-> NoRows,
     volume_indicators |-> NoRows,
     stages |-> [s \in AnalysisSet |-> NoRows]]

\* the run state of a specification that does not run the backtest
NoRun == [phase |-> "none"]

----------------------------------------------------------------------------
(* rows as the indicator layer writes them *)

\* the chain of comparisons with a value on the upper bound counted in
VixRegimeUpTo(n, d) ==
    IF n <= VIX_LOW * d THEN "LOW"
    ELSE IF n <= VIX_NORMAL * d THEN "NORMAL"
    ELSE IF n <= VIX_ELEVATED * d THEN "ELEVATED"
    ELSE IF n <= VIX_HIGH * d THEN "HIGH"
    ELSE "EXTREME"

\* the chain of comparisons of classify_vix for the value n / d, d > 0
VixRegime(n, d) ==
    IF n < VIX_LOW * d THEN "LOW"
    ELSE IF n < VIX_NORMAL * d THEN "NORMAL"
    ELSE IF n < VIX_ELEVATED * d THEN "ELEVATED"
    ELSE IF n < VIX_HIGH * d THEN "HIGH"
    ELSE "EXTREME"

\* indicators.classify_vix; vix_value is NULL (None or NaN) or
\* << [num, den] >>, the value num / den
classify_vix(vix_value) ==
    IF IsNull(vix_value) THEN NULL
    ELSE Some(VixRegime(Val(vix_value).num, Val(vix_value).den))

\* a row of vix_indicators as calc_vix_indicators writes it: the regime is
\* classify_vix of the close, the trend is NULL while the VIX SMAs are missing
VixRow(vix_close, vix_trend) ==
    [vix_close |-> vix_close, vix_regime |-> classify_vix(Some([num |-> vix_close, den |-> 1])),
     vix_trend |-> vix_trend]

\* a row of volume_indicators
VolumeRow(panic_ratio, fomo_ratio, fomo_ratio_ma) ==
    [panic_ratio |-> panic_ratio, fomo_ratio |-> fomo_ratio,
     fomo_ratio_ma |-> fomo_ratio_ma]

\* the store after compute_stage_history has run over it
WithStageHistory(d) == [d EXCEPT !.stages = compute_stage_history(d)]

\* days of identical history before the day the signal functions are called on
HistDays == 3

Today == HistDays + 1

\* one symbol's columns: HistDays days of the row ind at a close of 100, then
\* Today with the same row at the close given
HistoryPrices(close) ==
    [x \in Dates |-> IF x <= HistDays THEN Some(PriceRow(Some(100), Some(100)))
                     ELSE IF x = Today THEN Some(PriceRow(Some(close), Some(close)))
                     ELSE NULL]

HistoryIndicators(ind) == [x \in Dates |-> IF x <= Today THEN Some(ind) ELSE NULL]

\* a table with one row, dated Today (row may be NULL: no row at all)
TodayOnly(row) == [x \in Dates |-> IF x = Today THEN row ELSE NULL]

\* the VIX rows drawn: none, calm, elevated and falling, high and rising,
\* above the emergency level rising and falling, and exactly at the level
VixRows ==
    {NULL, Some(VixRow(15, Some("FALLING"))), Some(VixRow(25, Some("FALLING"))),
     Some(VixRow(35, Some("RISING"))), Some(VixRow(45, Some("RISING"))),
     Some(VixRow(45, Some("FALLING"))), Some(VixRow(40, Some("RISING")))}

----------------------------------------------------------------------------
(* SpecStage: compute_stage_history and determine_stage over every short   *)
(* history of one symbol                                                   *)

\* dates with data in SpecStage
MaxStageDate == 5

StageKinds == {"S2", "S3", "S4", "T", "young"}

StageKindInd(k) ==
    CASE k = "S2" -> Some(UpRow)
      [] k = "S3" -> Some(FlatTopRow)
      [] k = "S4" -> Some(DownRow)
      [] k = "T" -> Some(NoSlopeRow)
      [] k = "young" -> Some(YoungRow)

StageDb(kinds) ==
    [EmptyDb EXCEPT
        !.prices["SPY"] = [x \in Dates |-> IF x <= MaxStageDate
                                           THEN Some(PriceRow(Some(100), Some(100)))
                                           ELSE NULL],
        !.indicators["SPY"] = [x \in Dates |-> IF x <= MaxStageDate
                                               THEN StageKindInd(kinds[x]) ELSE NULL]]

InitStage ==
    /\ \E kinds \in [1..MaxStageDate -> StageKinds] : db = StageDb(kinds)
    /\ bt = NoRun /\ db2 = EmptyDb /\ bt2 = NoRun
    /\ pc = "stage"
    /\ ret = [op |-> "init", n |-> 0]

\* compute_stage_history(db_path), on the freshly indexed store
ComputeStageHistory ==
    /\ pc \in {"stage", "signals"} /\ ret.op = "init"
    /\ db' = [db EXCEPT !.stages = compute_stage_history(db)]
    /\ ret' = [op |-> "compute_stage_history", n |-> 0]
    /\ UNCHANGED <<bt, db2, bt2, pc>>

\* determine_stage("SPY", as_of_date, db_path), called date by date
DetermineStage ==
    /\ pc = "stage" /\ ret.n < MaxStageDate
    /\ LET r == determine_stage(db, "SPY", Some(ret.n + 1))
       IN /\ db' = [db EXCEPT !.stages = r.stages]
          /\ ret' = [op |-> "determine_stage", n |-> ret.n + 1,
                     stage |-> r.stage, raw_stage |-> r.raw_stage,
                     consecutive_days |-> r.consecutive_days,
                     confirmed |-> r.confirmed, date |-> r.date]
    /\ UNCHANGED <<bt, db2, bt2, pc>>

NextStage == ComputeStageHistory \/ DetermineStage

SpecStage == InitStage /\ [][NextStage]_vars

----------------------------------------------------------------------------
(* SpecExits: check_exits over drawn positions, closes, VIX rows and stages *)
(* of the underlying                                                        *)

\* the underlying's history: the row of every day and Today's close
ExitKinds ==
    {[ind |-> UpRow, close |-> 100], [ind |-> UpRow, close |-> 80],
     [ind |-> DownRow, close |-> 100], [ind |-> DownRow, close |-> 125],
     [ind |-> FlatTopRow, close |-> 100], [ind |-> BaseRow, close |-> 100]}

ExitDb(kind, vix) ==
    WithStageHistory(
        [EmptyDb EXCEPT !.prices["SPY"] = HistoryPrices(kind.close),
                        !.indicators["SPY"] = HistoryIndicators(kind.ind),
                        !.vix_indicators = TodayOnly(vix)])

Closes == {80, 100, 125}

\* the positions check_exits is called on: opened at a drawn price, then
\* possibly partly exited (stop at breakeven) and trailed up from a drawn close
ExitPositions ==
    LET opened ==
            {OpenedPosition([asset |-> IF dir = LONG THEN "SPY" ELSE EQUITY_INVERSE_SPY,
                             underlying |-> "SPY", direction |-> dir, tier |-> 1],
                            ed, ep, FracOfInt(1), calc_trade_params(ep, dir, st, atr)) :
                <<dir, ed, ep, st, atr>> \in
                    {LONG, LONG_INVERSE} \X {1, HistDays} \X Closes
                    \X {STAGE_2, STAGE_3} \X {NULL, Some(2)}}
        partial == {[p EXCEPT !.partial_exited = TRUE, !.stop = p.entry_price * 1000] :
                        p \in opened}
        trailed == {[p EXCEPT !.stop = c * (1000 - p.trailing_pct)] :
                        <<p, c>> \in {<<q, c>> \in partial \X Closes :
                                         c * (1000 - q.trailing_pct) > q.stop}}
    IN opened \cup partial \cup trailed

InitExits ==
    /\ \E kind \in ExitKinds, vix \in VixRows : db = ExitDb(kind, vix)
    /\ bt = NoRun /\ db2 = EmptyDb /\ bt2 = NoRun
    /\ pc = "exits"
    /\ ret = [op |-> "init"]

\* check_exits(position, current_close, Today, underlying, as_of_date = Today)
CheckExitsReturns(position, current_close, r) ==
    /\ ret' = [op |-> "check_exits", position |-> position,
               current_close |-> current_close, signal |-> r.signal]
    /\ db' = [db EXCEPT !.stages = r.stages]

CheckExits ==
    /\ pc = "exits" /\ ret.op = "init"
    /\ \E position \in ExitPositions, current_close \in Closes :
          CheckExitsReturns(position, current_close,
                            check_exits(db, position, current_close, Today,
                                        position.underlying, Some(Today)))
    /\ UNCHANGED <<bt, db2, bt2, pc>>

NextExits == CheckExits

SpecExits == InitExits /\ [][NextExits]_vars

----------------------------------------------------------------------------
(* SpecSignals: compute_stage_history, then entry_signal or asset_rotation, *)
(* over drawn stores                                                       *)

\* the same rising averages with a greater relative strength
UpStrongRow == [UpRow EXCEPT !.relative_strength = Some(1500)]

SymbolKinds ==
    [SPY |-> {[ind |-> UpRow, close |-> 100], [ind |-> UpRow, close |-> 80],
              [ind |-> DownRow, close |-> 100], [ind |-> DownRow, close |-> 125],
              [ind |-> FlatTopRow, close |-> 100], [ind |-> BaseRow, close |-> 80]},
     QQQ |-> {[ind |-> UpStrongRow, close |-> 100], [ind |-> DownRow, close |-> 100]},
     TLT |-> {[ind |-> UpRow, close |-> 100], [ind |-> BaseRow, close |-> 100]},
     UUP |-> {[ind |-> UpRow, close |-> 100], [ind |-> DownRow, close |-> 100],
              [ind |-> NoSlopeRow, close |-> 100]},
     UDN |-> {[ind |-> UpRow, close |-> 100], [ind |-> BaseRow, close |-> 100]}]

\* the volume rows drawn: none, quiet, a FOMO day, a panic day
VolumeRows ==
    {NULL, Some(VolumeRow(Some(100), Some(100), Some(100))),
     Some(VolumeRow(Some(50), Some(300), Some(250))),
     Some(VolumeRow(Some(400), Some(50), Some(250)))}

\* the VIX columns drawn: each row of VixRows dated Today, and an emergency
\* row dated the day before with no row Today
VixTables ==
    {TodayOnly(v) : v \in VixRows}
    \cup {[x \in Dates |-> IF x = HistDays THEN Some(VixRow(45, Some("RISING"))) ELSE NULL]}

SignalDb(kind, vixtab, vol) ==
    [EmptyDb EXCEPT
        !.prices = [s \in Symbols |-> IF s \in AnalysisSet
                                      THEN HistoryPrices(kind[s].close)
                                      ELSE HistoryPrices(100)],
        !.indicators = [s \in AnalysisSet |-> HistoryIndicators(kind[s].ind)],
        !.vix_indicators = vixtab,
        !.volume_indicators = TodayOnly(vol)]

InitSignals ==
    /\ \E spy \in SymbolKinds.SPY, qqq \in SymbolKinds.QQQ, tlt \in SymbolKinds.TLT,
          uup \in SymbolKinds.UUP, udn \in SymbolKinds.UDN,
          vixtab \in VixTables, vol \in VolumeRows :
          db = SignalDb([SPY |-> spy, QQQ |-> qqq, TLT |-> tlt, UUP |-> uup, UDN |-> udn],
                        vixtab, vol)
    /\ bt = NoRun /\ db2 = EmptyDb /\ bt2 = NoRun
    /\ pc = "signals"
    /\ ret = [op |-> "init", n |-> 0]

\* entry_signal(symbol, direction, stage_info = None, as_of_date = Today), once
\* the stage history is computed
\* the state after entry_signal returned sig for the stage_info given
EntrySignalReturns(symbol, direction, stage_info, sig) ==
    /\ ret' = [op |-> "entry_signal", symbol |-> symbol, direction |-> direction,
               signal |-> sig.signal, score |-> sig.score,
               pillar_results |-> sig.pillar_results]
    /\ db' = [db EXCEPT !.stages = stage_info.stages]

EntrySignalCalls(symbol, direction, stage_info) ==
    EntrySignalReturns(symbol, direction, stage_info,
                       entry_signal(db, symbol, direction, stage_info, Some(Today)))

EntrySignal ==
    /\ pc = "signals" /\ ret.op = "compute_stage_history"
    /\ \E symbol \in AnalysisSet, direction \in {LONG, LONG_INVERSE} :
          EntrySignalCalls(symbol, direction, determine_stage(db, symbol, Some(Today)))
    /\ UNCHANGED <<bt, db2, bt2, pc>>

\* asset_rotation(as_of_date = Today)
AssetRotationReturns(r) ==
    /\ ret' = [op |-> "asset_rotation", rotation |-> r.rotation]
    /\ db' = [db EXCEPT !.stages = r.stages]

AssetRotation ==
    /\ pc = "signals" /\ ret.op = "compute_stage_history"
    /\ AssetRotationReturns(asset_rotation(db, Some(Today)))
    /\ UNCHANGED <<bt, db2, bt2, pc>>

NextSignals == ComputeStageHistory \/ EntrySignal \/ AssetRotation

SpecSignals == InitSignals /\ [][NextSignals]_vars

----------------------------------------------------------------------------
(* Spec: run_backtest over drawn stores, one action per stage of the run    *)

\* what the store holds for one calendar day: the SPY and QQQ indicator rows
\* and prices, the SH price, whether the other symbols have rows, the VIX and
\* the volume row.  NULL is a missing row.
Day(spy, qqq, open, close, sh, others, vix, vol) ==
    [spy |-> spy, qqq |-> qqq, open |-> open, close |-> close, sh |-> sh,
     others |-> others, vix |-> vix, vol |-> vol]

QuietVolume == Some(VolumeRow(Some(100), Some(100), Some(100)))

FomoVolume == Some(VolumeRow(Some(50), Some(300), Some(250)))

PanicVolume == Some(VolumeRow(Some(400), Some(50), Some(250)))

\* a quiet day in an uptrend, QQQ the stronger
BullDay == Day(Some(UpRow), Some(UpStrongRow), Some(100), 100, Some(100), TRUE,
               Some(VixRow(15, Some("FALLING"))), QuietVolume)

\* an uptrend day closing at 125, SPY and QQQ equally strong
RallyDay == Day(Some(UpRow), Some(UpRow), Some(100), 125, Some(80), TRUE,
                Some(VixRow(15, Some("FALLING"))), QuietVolume)

\* an uptrend day closing at 80, the open not recorded
DipDay == Day(Some(UpRow), Some(UpRow), NULL, 80, Some(125), TRUE,
              Some(VixRow(25, Some("FALLING"))), QuietVolume)

\* a downtrend day with the VIX high and rising
BearDay == Day(Some(DownRow), Some(DownRow), Some(100), 100, Some(100), TRUE,
               Some(VixRow(35, Some("RISING"))), FomoVolume)

\* a downtrend day closing at 80 with the VIX above the emergency level
CrashDay == Day(Some(DownRow), Some(DownRow), Some(100), 80, Some(125), TRUE,
                Some(VixRow(45, Some("RISING"))), PanicVolume)

\* a day on which only SPY traded and no VIX or volume row was computed
GapDay == Day(Some(UpRow), NULL, Some(100), 100, NULL, FALSE, NULL, NULL)

\* a day without any row
Holiday == Day(NULL, NULL, NULL, 0, NULL, FALSE, NULL, NULL)

DayKinds == {BullDay, RallyDay, DipDay, BearDay, CrashDay, GapDay, Holiday}

HistoryKinds == {BullDay, BearDay}

\* the prices row of symbol on a day
DayPrice(day, symbol) ==
    IF symbol = "SPY"
    THEN (IF NotNull(day.spy) THEN Some(PriceRow(day.open, Some(day.close))) ELSE NULL)
    ELSE IF symbol = "QQQ"
    THEN (IF NotNull(day.qqq) THEN Some(PriceRow(day.open, Some(day.close))) ELSE NULL)
    ELSE IF symbol = EQUITY_INVERSE_SPY
    THEN (IF NotNull(day.sh) THEN Some(PriceRow(day.open, day.sh)) ELSE NULL)
    ELSE IF day.others THEN Some(PriceRow(Some(100), Some(100))) ELSE NULL

\* the indicators row of symbol on a day
DayIndicators(day, symbol) ==
    IF symbol = "SPY" THEN day.spy
    ELSE IF symbol = "QQQ" THEN day.qqq
    ELSE IF day.others THEN Some(BaseRow) ELSE NULL

\* the store holding days[x] for every date x, with no stage row computed
StoreOf(days) ==
    [prices |-> [s \in Symbols |-> [x \in Dates |-> DayPrice(days[x], s)]],
     indicators |-> [s \in AnalysisSet |-> [x \in Dates |-> DayIndicators(days[x], s)]],
     vix_indicators |-> [x \in Dates |-> days[x].vix],
     volume_indicators |-> [x \in Dates |-> days[x].vol],
     stages |-> [s \in AnalysisSet |-> NoRows]]

\* HistDays days of one kind, then the days drawn
Calendars ==
    {[x \in Dates |-> IF x <= HistDays THEN h ELSE later[x]] :
        h \in HistoryKinds, later \in [(HistDays + 1)..MaxDate -> DayKinds]}

\* a call of run_backtest not yet started
Idle(start_date, end_date) ==
    [phase |-> "idle", start_date |-> start_date, end_date |-> end_date]

Init ==
    /\ \E days \in Calendars : db = StoreOf(days)
    /\ \E start_date \in {HistDays, MaxDate} : bt = Idle(start_date, MaxDate)
    /\ db2 = EmptyDb /\ bt2 = NoRun
    /\ pc = "backtest"
    /\ ret = [op |-> "init", n |-> 0]

\* the store and the run become those of s
Becomes(s) == db' = s.db /\ bt' = s.run

\* run_backtest from its call to the head of the loop
BeginBacktest ==
    /\ pc = "backtest" /\ bt.phase = "idle"
    /\ Becomes(StartRun(db, bt.start_date, bt.end_date,
                        TradingDates(db, bt.start_date, bt.end_date)))
    /\ UNCHANGED <<db2, bt2, pc, ret>>

\* one iteration of the loop over trading_dates
ProcessDate ==
    /\ pc = "backtest" /\ bt.phase = "run" /\ bt.i < Len(bt.trading_dates)
    /\ Becomes(LoopBody([db |-> db, run |-> [bt EXCEPT !.i = bt.i + 1]],
                        bt.trading_dates[bt.i + 1]))
    /\ UNCHANGED <<db2, bt2, pc, ret>>

\* run_backtest from the end of the loop to its return
EndBacktest ==
    /\ pc = "backtest" /\ bt.phase = "run" /\ bt.i = Len(bt.trading_dates)
    /\ bt' = EndRun(db, bt)
    /\ UNCHANGED <<db, db2, bt2, pc, ret>>

Next == BeginBacktest \/ ProcessDate \/ EndBacktest

Spec == Init /\ [][Next]_vars

----------------------------------------------------------------------------
(* SpecNoFuture: run_backtest over two stores that agree up to a date, the  *)
(* second run following the first step by step                              *)

ReplayKinds == {BullDay, RallyDay, DipDay, CrashDay}

\* what replaces the days after the horizon in the second store
FutureKinds == {Holiday, CrashDay}

ReplayCalendars ==
    {[x \in Dates |-> IF x <= HistDays THEN h ELSE later[x]] :
        h \in HistoryKinds, later \in [(HistDays + 1)..MaxDate -> ReplayKinds]}

\* the calendar with every day after the date t replaced by the day given
Rewritten(days, t, day) == [x \in Dates |-> IF x <= t THEN days[x] ELSE day]

InitNoFuture ==
    /\ \E days \in ReplayCalendars, t \in HistDays..(MaxDate - 1), day \in FutureKinds :
          /\ db = StoreOf(days)
          /\ db2 = StoreOf(Rewritten(days, t, day))
    /\ bt = Idle(HistDays, MaxDate)
    /\ bt2 = Idle(HistDays, MaxDate)
    /\ pc = "backtest"
    /\ ret = [op |-> "init", n |-> 0]

\* the second store and the second run become those of s
Becomes2(s) == db2' = s.db /\ bt2' = s.run

\* run_backtest on the second store, from its call to the head of the loop
ReplayBegin ==
    /\ pc = "backtest" /\ bt2.phase = "idle"
    /\ Becomes2(StartRun(db2, bt2.start_date, bt2.end_date,
                         TradingDates(db2, bt2.start_date, bt2.end_date)))
    /\ UNCHANGED <<db, bt, pc, ret>>

\* one iteration of the loop of the second run
ReplayDate ==
    /\ pc = "backtest" /\ bt2.phase = "run" /\ bt2.i < Len(bt2.trading_dates)
    /\ Becomes2(LoopBody([db |-> db2, run |-> [bt2 EXCEPT !.i = bt2.i + 1]],
                         bt2.trading_dates[bt2.i + 1]))
    /\ UNCHANGED <<db, bt, pc, ret>>

\* the second run from the end of the loop to its return
ReplayEnd ==
    /\ pc = "backtest" /\ bt2.phase = "run" /\ bt2.i = Len(bt2.trading_dates)
    /\ bt2' = EndRun(db2, bt2)
    /\ UNCHANGED <<db, db2, bt, pc, ret>>

\* how far a run has got: called, each date processed, returned
ProgressOf(run) ==
    IF run.phase = "idle" THEN 0
    ELSE IF run.phase = "run" THEN 1 + run.i
    ELSE 2 + Len(run.trading_dates)

\* the first run takes a step when the second has caught up with it
Leads == bt.phase # "done" /\ (bt2.phase = "done" \/ ProgressOf(bt2) >= ProgressOf(bt))

Follows == ~Leads /\ bt2.phase # "done"

NextNoFuture ==
    \/ Leads /\ BeginBacktest
    \/ Leads /\ ProcessDate
    \/ Leads /\ EndBacktest
    \/ Follows /\ ReplayBegin
    \/ Follows /\ ReplayDate
    \/ Follows /\ ReplayEnd

SpecNoFuture == InitNoFuture /\ [][NextNoFuture]_vars

----------------------------------------------------------------------------
(* SpecCooldown: run_backtest over stores whose VIX moves around the        *)
(* emergency level                                                          *)

\* a downtrend day with the VIX exactly at the emergency level and rising
StandoffDay == Day(Some(DownRow), Some(DownRow), Some(100), 100, Some(100), TRUE,
                   Some(VixRow(40, Some("RISING"))), FomoVolume)

\* a downtrend day with the VIX above the emergency level and falling
EasingDay == Day(Some(DownRow), Some(DownRow), Some(100), 100, Some(100), TRUE,
                 Some(VixRow(45, Some("FALLING"))), FomoVolume)

CooldownKinds == {BullDay, BearDay, CrashDay, StandoffDay, EasingDay, GapDay}

CooldownCalendars ==
    {[x \in Dates |-> IF x <= HistDays THEN h ELSE later[x]] :
        h \in HistoryKinds, later \in [(HistDays + 1)..MaxDate -> CooldownKinds]}

InitCooldown ==
    /\ \E days \in CooldownCalendars : db = StoreOf(days)
    /\ bt = Idle(HistDays, MaxDate)
    /\ db2 = EmptyDb /\ bt2 = NoRun
    /\ pc = "backtest"
    /\ ret = [op |-> "init", n |-> 0]

SpecCooldown == InitCooldown /\ [][Next]_vars

----------------------------------------------------------------------------
(* SpecLive: the position endpoints of app.py called in any order on the   *)
(* live tables.  db is the store, bt the live tables, ret the last         *)
(* response with the number of calls made so far.                          *)

\* calls of one behaviour
MaxCalls == 3

\* the dates datetime.now() may give
Todays == {2}

\* the store of a database without market data, and with SPY in a
\* confirmed topping history
LiveStores == {EmptyDb, StageDb([x \in 1..MaxStageDate |-> "S3"])}

\* EnterTradeRequest
EnterRequests ==
    [symbol : {"SPY"}, direction : {LONG, LONG_INVERSE}, entry_price : {3, 32},
     entry_date : {NULL, Some(1)}, shares : {NULL, Some(2)},
     capital : {NULL, Some(1000)}]

\* ExitTradeRequest
ExitRequests ==
    [exit_price : {5, 33}, exit_date : {NULL}, exit_reason : {"MANUAL", "VIX_EMERGENCY"},
     partial : BOOLEAN]

\* new_stop of update_stop, in thousandths
NewStops == {2900, 31000}

InitLive ==
    /\ db \in LiveStores
    /\ \E c \in BOOLEAN :
          bt = [has_stop_order_date |-> c, row |-> InitialRow, trades |-> << >>]
    /\ db2 = EmptyDb /\ bt2 = NoRun
    /\ pc = "live"
    /\ ret = [op |-> "init", n |-> 0, status |-> 200, body |-> [action |-> "INIT"]]

\* the state after a call that returned r
Responds(op, r) ==
    /\ db' = r.s.db
    /\ bt' = r.s.live
    /\ ret' = [op |-> op, n |-> ret.n + 1, status |-> r.status, body |-> r.body]
    /\ UNCHANGED <<db2, bt2, pc>>

EnterPosition ==
    /\ pc = "live" /\ ret.n < MaxCalls
    /\ \E req \in EnterRequests, today \in Todays :
          Responds("enter_position", enter_position([db |-> db, live |-> bt], req, today))

ExitPosition ==
    /\ pc = "live" /\ ret.n < MaxCalls
    /\ \E req \in ExitRequests, today \in Todays :
          Responds("exit_position", exit_position([db |-> db, live |-> bt], req, today))

UpdateStop ==
    /\ pc = "live" /\ ret.n < MaxCalls
    /\ \E new_stop \in NewStops, today \in Todays :
          Responds("update_stop", update_stop([db |-> db, live |-> bt], new_stop, today))

RenewStopOrder ==
    /\ pc = "live" /\ ret.n < MaxCalls
    /\ \E today \in Todays :
          Responds("renew_stop_order", renew_stop_order([db |-> db, live |-> bt], today))

NextLive == EnterPosition \/ ExitPosition \/ UpdateStop \/ RenewStopOrder

SpecLive == InitLive /\ [][NextLive]_vars

----------------------------------------------------------------------------
(* SpecRoundTrip: the two ledgers that close positions, run_backtest over  *)
(* stores with an unevenly priced day and the position endpoints on the    *)
(* live tables                                                             *)

\* a quiet uptrend day that opens at 96 and closes at 100
UnevenDay == Day(Some(UpRow), Some(UpStrongRow), Some(96), 100, Some(100), TRUE,
                 Some(VixRow(15, Some("FALLING"))), QuietVolume)

RoundTripKinds == {BullDay, UnevenDay, RallyDay, CrashDay}

RoundTripCalendars ==
    {[x \in Dates |-> IF x <= HistDays THEN h ELSE later[x]] :
        h \in HistoryKinds, later \in [(HistDays + 1)..MaxDate -> RoundTripKinds]}

InitReplay ==
    /\ \E days \in RoundTripCalendars : db = StoreOf(days)
    /\ bt = Idle(HistDays, MaxDate)
    /\ db2 = EmptyDb /\ bt2 = NoRun
    /\ pc = "backtest"
    /\ ret = [op |-> "init", n |-> 0]

InitRoundTrip == InitReplay \/ InitLive

NextRoundTrip == Next \/ NextLive

SpecRoundTrip == InitRoundTrip /\ [][NextRoundTrip]_vars

----------------------------------------------------------------------------
(* SpecParams: calc_trade_params on drawn entries                          *)

\* the largest ATR drawn
MaxAtr == 20

EntryPrices == {1, 50, 100, 200}

InitParams ==
    /\ db = EmptyDb /\ bt = NoRun /\ db2 = EmptyDb /\ bt2 = NoRun
    /\ pc = "params"
    /\ \E entry_price \in EntryPrices, atr \in {NULL} \cup {Some(a) : a \in 0..MaxAtr},
          direction \in {LONG, LONG_INVERSE},
          stage \in {STAGE_1, STAGE_2, STAGE_3, STAGE_4, TRANSITIONAL} :
          ret = [op |-> "init", n |-> 0, entry_price |-> entry_price, atr |-> atr,
                 direction |-> direction, stage |-> stage]

\* calc_trade_params(entry_price, direction, stage, atr)
CalcTradeParams ==
    /\ pc = "params" /\ ret.op = "init"
    /\ ret' = [op |-> "calc_trade_params", n |-> 1, entry_price |-> ret.entry_price,
               atr |-> ret.atr, direction |-> ret.direction, stage |-> ret.stage,
               params |-> calc_trade_params(ret.entry_price, ret.direction,
                                            ret.stage, ret.atr)]
    /\ UNCHANGED <<db, bt, db2, bt2, pc>>

NextParams == CalcTradeParams

SpecParams == InitParams /\ [][NextParams]_vars

----------------------------------------------------------------------------
(* SpecLookup: the retrieval functions of indicators.py on stores whose    *)
(* tables have rows on any subset of the dates                             *)

\* the store with SPY indicator and VIX rows on the dates ds, and QQQ
\* indicator and volume rows on the other dates
LookupStore(ds) ==
    [EmptyDb EXCEPT
        !.indicators["SPY"] = [x \in Dates |-> IF x \in ds THEN Some(UpRow) ELSE NULL],
        !.indicators["QQQ"] = [x \in Dates |-> IF x \in ds THEN NULL ELSE Some(DownRow)],
        !.vix_indicators = [x \in Dates |-> IF x \in ds
                                            THEN Some(VixRow(15 + x, Some("RISING")))
                                            ELSE NULL],
        !.volume_indicators = [x \in Dates |-> IF x \in ds THEN NULL ELSE QuietVolume]]

\* as_of_date: omitted, a date before the first, any date, a date after the last
AsOfArguments == {NULL} \cup {Some(x) : x \in 0..(MaxDate + 1)}

InitLookup ==
    /\ \E ds \in SUBSET Dates : db = LookupStore(ds)
    /\ bt = NoRun /\ db2 = EmptyDb /\ bt2 = NoRun
    /\ pc = "lookup"
    /\ ret = [op |-> "init", n |-> 0]

\* the state after a retrieval function returned result
Retrieved(op, symbol, as_of, result) ==
    /\ ret' = [op |-> op, n |-> 1, symbol |-> symbol, as_of |-> as_of, result |-> result]
    /\ UNCHANGED <<db, bt, db2, bt2, pc>>

GetLatestIndicators ==
    /\ pc = "lookup"
    /\ \E symbol \in {"SPY", "QQQ"}, as_of \in AsOfArguments :
          Retrieved("get_latest_indicators", symbol, as_of,
                    get_latest_indicators(db, symbol, as_of))

GetLatestVix ==
    /\ pc = "lookup"
    /\ \E as_of \in AsOfArguments :
          Retrieved("get_latest_vix", "", as_of, get_latest_vix(db, as_of))

GetLatestVolume ==
    /\ pc = "lookup"
    /\ \E as_of \in AsOfArguments :
          Retrieved("get_latest_volume", "", as_of, get_latest_volume(db, as_of))

NextLookup == GetLatestIndicators \/ GetLatestVix \/ GetLatestVolume

SpecLookup == InitLookup /\ [][NextLookup]_vars

----------------------------------------------------------------------------
(* SpecVix: classify_vix on every VIX value up to MaxVixClose, in steps of *)
(* 0.01, and on a missing value                                            *)

\* the largest VIX value classified
MaxVixClose == 45

VixValues == {NULL} \cup {Some([num |-> n, den |-> 100]) : n \in 0..(MaxVixClose * 100)}

InitVix ==
    /\ db = EmptyDb /\ bt = NoRun /\ db2 = EmptyDb /\ bt2 = NoRun
    /\ pc = "vix"
    /\ \E v \in VixValues : ret = [op |-> "init", n |-> 0, vix_value |-> v, regime |-> NULL]

\* classify_vix(vix_value)
ClassifyVix ==
    /\ pc = "vix" /\ ret.op = "init"
    /\ ret' = [op |-> "classify_vix", n |-> 1, vix_value |-> ret.vix_value,
               regime |-> classify_vix(ret.vix_value)]
    /\ UNCHANGED <<db, bt, db2, bt2, pc>>

NextVix == ClassifyVix

SpecVix == InitVix /\ [][NextVix]_vars

----------------------------------------------------------------------------
(* SpecSma: calc_sma on every short series and on the series of test_sma   *)

\* the longest series drawn
MaxSeriesLen == 4

\* the longest period drawn
MaxPeriod == 5

\* the series of test_sma: 10, 11, ..., 20
TestSeries == [i \in 1..11 |-> Some(9 + i)]

SeriesValues == {NULL, Some(1), Some(2), Some(4)}

SmaSeries ==
    {TestSeries} \cup UNION {[1..len -> SeriesValues] : len \in 0..MaxSeriesLen}

InitSma ==
    /\ db = EmptyDb /\ bt = NoRun /\ db2 = EmptyDb /\ bt2 = NoRun
    /\ pc = "sma"
    /\ \E series \in SmaSeries, period \in 1..MaxPeriod :
          ret = [op |-> "init", n |-> 0, series |-> series, period |-> period,
                 sma |-> << >>]

\* calc_sma(series, period)
CalcSma ==
    /\ pc = "sma" /\ ret.op = "init"
    /\ ret' = [op |-> "calc_sma", n |-> 1, series |-> ret.series, period |-> ret.period,
               sma |-> calc_sma(ret.series, ret.period)]
    /\ UNCHANGED <<db, bt, db2, bt2, pc>>

NextSma == CalcSma

SpecSma == InitSma /\ [][NextSma]_vars

----------------------------------------------------------------------------
(* SpecVolume: calc_volume_ratios on every short pair of volume series and *)
(* on the series of test_volume_ratios                                     *)

\* the longest volume series drawn
MaxVolumeDays == 2

\* the days of the series of test_volume_ratios
TestVolumeDays == 30

\* volumes in units of 1e9; NULL is a volume that was not recorded
VolumeValues == {NULL, Some(0), Some(1), Some(3)}

\* test_volume_ratios: up 1e9 on every day, down 1e9 and 3e9 on the last
TestUpVolume == [i \in 1..TestVolumeDays |-> Some(1)]

TestDownVolume == [i \in 1..TestVolumeDays |-> IF i = TestVolumeDays THEN Some(3) ELSE Some(1)]

VolumeSeries ==
    {[up |-> TestUpVolume, down |-> TestDownVolume]}
    \cup UNION {[up : [1..len -> VolumeValues], down : [1..len -> VolumeValues]] :
                   len \in 1..MaxVolumeDays}

InitVolume ==
    /\ db = EmptyDb /\ bt = NoRun /\ db2 = EmptyDb /\ bt2 = NoRun
    /\ pc = "volume"
    /\ \E v \in VolumeSeries :
          ret = [op |-> "init", n |-> 0, up |-> v.up, down |-> v.down, frame |-> << >>]

\* calc_volume_ratios(up_volume_series, down_volume_series)
CalcVolumeRatios ==
    /\ pc = "volume" /\ ret.op = "init"
    /\ ret' = [op |-> "calc_volume_ratios", n |-> 1, up |-> ret.up, down |-> ret.down,
               frame |-> calc_volume_ratios(ret.up, ret.down)]
    /\ UNCHANGED <<db, bt, db2, bt2, pc>>

NextVolume == CalcVolumeRatios

SpecVolume == InitVolume /\ [][NextVolume]_vars

----------------------------------------------------------------------------
(* SpecRatios: calc_sma_slope, calc_bollinger_bands and                    *)
(* calc_relative_strength on every short series                            *)

\* the longest series drawn
MaxRatioDays == 4

\* the longest period or lookback drawn
MaxRatioPeriod == 3

\* closes and SMA values; NULL is NaN
RatioValues == {NULL, Some(0), Some(1), Some(2)}

RatioSeries == UNION {[1..len -> RatioValues] : len \in 1..MaxRatioDays}

\* the series as a series of SMA values
AsFractions(series) ==
    [i \in DOMAIN series |-> IF IsNull(series[i]) THEN NULL
                             ELSE Some(FracOfInt(Val(series[i])))]

InitRatios ==
    /\ db = EmptyDb /\ bt = NoRun /\ db2 = EmptyDb /\ bt2 = NoRun
    /\ pc = "ratios"
    /\ \E series \in RatioSeries, period \in 1..MaxRatioPeriod :
          ret = [op |-> "init", n |-> 0, series |-> series, period |-> period,
                 result |-> << >>]

\* the state after an indicator function returned result
Computed(op, result) ==
    /\ ret' = [op |-> op, n |-> 1, series |-> ret.series, period |-> ret.period,
               result |-> result]
    /\ UNCHANGED <<db, bt, db2, bt2, pc>>

\* calc_sma_slope(sma_series, lookback)
CalcSmaSlope ==
    /\ pc = "ratios" /\ ret.op = "init"
    /\ Computed("calc_sma_slope", calc_sma_slope(AsFractions(ret.series), ret.period))

\* calc_bollinger_bands(close_series, period)
CalcBollingerBands ==
    /\ pc = "ratios" /\ ret.op = "init"
    /\ Computed("calc_bollinger_bands",
                calc_bollinger_bands(ret.series, ret.period, BB_STD_DEV))

\* calc_relative_strength(close_series, sma_period)
CalcRelativeStrength ==
    /\ pc = "ratios" /\ ret.op = "init"
    /\ Computed("calc_relative_strength", calc_relative_strength(ret.series, ret.period))

NextRatios == CalcSmaSlope \/ CalcBollingerBands \/ CalcRelativeStrength

SpecRatios == InitRatios /\ [][NextRatios]_vars

----------------------------------------------------------------------------
(* SpecPillars: trend_check, volatility_check and volume_check on stores   *)
(* in which the rows or columns they read may be missing                   *)

\* the indicator rows drawn for SPY: none, a full row, a row with one moving
\* average missing, a young series
PillarIndicatorRows ==
    {NULL, Some(UpRow), Some(DownRow), Some(YoungRow),
     Some([UpRow EXCEPT !.sma_5 = NULL]), Some([UpRow EXCEPT !.sma_20 = NULL]),
     Some([UpRow EXCEPT !.sma_50 = NULL]), Some([UpRow EXCEPT !.sma_150 = NULL]),
     Some([UpRow EXCEPT !.sma_200 = NULL]), Some([DownRow EXCEPT !.bb_percent_b = NULL])}

\* the price rows drawn for SPY: none, a row without a close, a full row
PillarPriceRows == {NULL, Some(PriceRow(Some(100), NULL)), Some(PriceRow(Some(100), Some(100)))}

\* the VIX rows drawn: none, one whose trend is missing, calm, elevated and
\* falling, high and rising
PillarVixRows ==
    {NULL, Some(VixRow(15, NULL)), Some(VixRow(15, Some("FALLING"))),
     Some(VixRow(25, Some("FALLING"))), Some(VixRow(35, Some("RISING")))}

\* the volume rows drawn: none, every ratio undefined, only the panic ratio
\* defined, only the fomo ratios defined, quiet, FOMO
PillarVolumeRows ==
    {NULL, Some(VolumeRow(NULL, NULL, NULL)), Some(VolumeRow(Some(400), NULL, NULL)),
     Some(VolumeRow(NULL, Some(300), Some(100))), QuietVolume, FomoVolume}

\* the store with these rows on every date up to Today
PillarStore(ind, price, vix, vol) ==
    [EmptyDb EXCEPT
        !.indicators["SPY"] = [x \in Dates |-> IF x <= Today THEN ind ELSE NULL],
        !.prices["SPY"] = [x \in Dates |-> IF x <= Today THEN price ELSE NULL],
        !.vix_indicators = [x \in Dates |-> IF x <= Today THEN vix ELSE NULL],
        !.volume_indicators = [x \in Dates |-> IF x <= Today THEN vol ELSE NULL]]

PillarAsOf == {NULL, Some(Today)}

InitPillars ==
    /\ \E ind \in PillarIndicatorRows, price \in PillarPriceRows,
          vix \in PillarVixRows, vol \in PillarVolumeRows :
          db = PillarStore(ind, price, vix, vol)
    /\ bt = NoRun /\ db2 = EmptyDb /\ bt2 = NoRun
    /\ pc = "pillars"
    /\ ret = [op |-> "init", n |-> 0]

\* the state after a pillar function returned result
Scored(op, direction, as_of, result) ==
    /\ ret' = [op |-> op, n |-> 1, direction |-> direction, as_of |-> as_of,
               favorable |-> result.favorable]
    /\ UNCHANGED <<db, bt, db2, bt2, pc>>

TrendCheck ==
    /\ pc = "pillars"
    /\ \E direction \in {LONG, LONG_INVERSE}, as_of \in PillarAsOf :
          Scored("trend_check", direction, as_of,
                 trend_check(db, "SPY", direction, as_of))

VolatilityCheck ==
    /\ pc = "pillars"
    /\ \E direction \in {LONG, LONG_INVERSE}, as_of \in PillarAsOf :
          Scored("volatility_check", direction, as_of,
                 volatility_check(db, direction, "SPY", as_of))

VolumeCheck ==
    /\ pc = "pillars"
    /\ \E direction \in {LONG, LONG_INVERSE}, as_of \in PillarAsOf :
          Scored("volume_check", direction, as_of, volume_check(db, direction, as_of))

NextPillars == TrendCheck \/ VolatilityCheck \/ VolumeCheck

SpecPillars == InitPillars /\ [][NextPillars]_vars

----------------------------------------------------------------------------
(* SpecRerun: run_backtest called twice in a row with the same arguments,  *)
(* the second call on the store as the first call left it.  db and bt are  *)
(* the store and the run of the first call, db2 and bt2 those of the       *)
(* second.                                                                 *)

\* a day of a young series: sma_150 and sma_200 not yet defined, so
\* compute_stage_history skips the date and determine_stage stores its row
YoungDay == Day(Some(YoungRow), Some(YoungRow), Some(100), 100, Some(100), TRUE,
                Some(VixRow(15, Some("FALLING"))), QuietVolume)

RerunHistoryKinds == {BullDay, BearDay, YoungDay}

RerunKinds == {BullDay, CrashDay, YoungDay}

RerunCalendars ==
    {[x \in Dates |-> IF x <= HistDays THEN h ELSE later[x]] :
        h \in RerunHistoryKinds, later \in [(HistDays + 1)..MaxDate -> RerunKinds]}

\* the store with a stages table left by an earlier computation over other
\* data: every symbol in a confirmed STAGE_4 on every date
WithStaleStages(d) ==
    [d EXCEPT !.stages = [s \in AnalysisSet |->
                            [x \in Dates |-> Some(StageRow(STAGE_4, TRUE, 5))]]]

InitRerun ==
    /\ \E days \in RerunCalendars :
          db \in {StoreOf(days), WithStaleStages(StoreOf(days))}
    /\ \E start_date \in {1, HistDays} :
          bt = Idle(start_date, MaxDate) /\ bt2 = Idle(start_date, MaxDate)
    /\ db2 = EmptyDb
    /\ pc = "backtest"
    /\ ret = [op |-> "init", n |-> 0]

\* the second call of run_backtest, made when the first has returned, from
\* its call to the head of the loop
RerunBegin ==
    /\ pc = "backtest" /\ bt.phase = "done" /\ bt2.phase = "idle"
    /\ Becomes2(StartRun(db, bt2.start_date, bt2.end_date,
                         TradingDates(db, bt2.start_date, bt2.end_date)))
    /\ UNCHANGED <<db, bt, pc, ret>>

NextRerun ==
    \/ BeginBacktest
    \/ ProcessDate
    \/ EndBacktest
    \/ RerunBegin
    \/ ReplayDate
    \/ ReplayEnd

SpecRerun == InitRerun /\ [][NextRerun]_vars

----------------------------------------------------------------------------
(* SpecPair: compute_stage_history over two stores, each holding its own   *)
(* short history of one symbol                                             *)

\* dates with data in SpecPair
MaxPairDate == 4

PairKinds == {"S2", "S4", "T"}

PairDb(kinds) ==
    [EmptyDb EXCEPT
        !.prices["SPY"] = [x \in Dates |-> IF x <= MaxPairDate
                                           THEN Some(PriceRow(Some(100), Some(100)))
                                           ELSE NULL],
        !.indicators["SPY"] = [x \in Dates |-> IF x <= MaxPairDate
                                               THEN StageKindInd(kinds[x]) ELSE NULL]]

InitPair ==
    /\ \E kinds \in [1..MaxPairDate -> PairKinds] : db = PairDb(kinds)
    /\ \E kinds \in [1..MaxPairDate -> PairKinds] : db2 = PairDb(kinds)
    /\ bt = NoRun /\ bt2 = NoRun
    /\ pc = "pair"
    /\ ret = [op |-> "init", n |-> 0]

\* compute_stage_history(db_path) on the first store
ComputeFirstHistory ==
    /\ pc = "pair" /\ ret.n = 0
    /\ db' = [db EXCEPT !.stages = compute_stage_history(db)]
    /\ ret' = [op |-> "compute_stage_history", n |-> 1]
    /\ UNCHANGED <<bt, db2, bt2, pc>>

\* compute_stage_history(db_path) on the second store
ComputeSecondHistory ==
    /\ pc = "pair" /\ ret.n = 1
    /\ db2' = [db2 EXCEPT !.stages = compute_stage_history(db2)]
    /\ ret' = [op |-> "compute_stage_history", n |-> 2]
    /\ UNCHANGED <<db, bt, bt2, pc>>

NextPair == ComputeFirstHistory \/ ComputeSecondHistory

SpecPair == InitPair /\ [][NextPair]_vars

----------------------------------------------------------------------------
(* SpecClassify: classify_stage on indicator dicts with any of their       *)
(* inputs missing                                                          *)

\* the inputs classify_stage reads
StageInputs ==
    {"close", "sma_50", "sma_150", "sma_200", "sma_150_slope", "sma_200_slope",
     "sma_50_slope"}

ClassifyRows == {UpRow, DownRow, FlatTopRow, BaseRow}

\* the dict of a row at a close of 100 with the inputs in missing set to None
WithMissing(row, missing) ==
    [f \in (DOMAIN row) \cup {"close"} |->
        IF f \in missing THEN NULL
        ELSE IF f = "close" THEN Some(100)
        ELSE row[f]]

InitClassify ==
    /\ db = EmptyDb /\ bt = NoRun /\ db2 = EmptyDb /\ bt2 = NoRun
    /\ pc = "classify"
    /\ \E row \in ClassifyRows, missing \in SUBSET StageInputs :
          ret = [op |-> "init", n |-> 0, ind |-> WithMissing(row, missing)]

\* classify_stage(ind)
ClassifyStage ==
    /\ pc = "classify" /\ ret.op = "init"
    /\ ret' = [op |-> "classify_stage", n |-> 1, ind |-> ret.ind,
               result |-> classify_stage(ret.ind)]
    /\ UNCHANGED <<db, bt, db2, bt2, pc>>

NextClassify == ClassifyStage

SpecClassify == InitClassify /\ [][NextClassify]_vars

----------------------------------------------------------------------------
(* SpecFlip: check_exits called on its own (SpecExits) and from STEP 2 of  *)
(* run_backtest (Spec)                                                     *)

InitFlip == InitExits \/ Init

NextFlip == NextExits \/ Next

SpecFlip == InitFlip /\ [][NextFlip]_vars

----------------------------------------------------------------------------
(* SpecSpeed: check_exits as of Today on positions entered on each earlier  *)
(* date, with the calendar laid over the dates: date x is the calendar day *)
(* x * DaysPerStep, and ret.first_weekday is the weekday of calendar day 0 *)
(* (0 is Monday, 5 and 6 the weekend)                                      *)

\* the weekday of a date
WeekdayOf(first_weekday, date) == (first_weekday + date * DaysPerStep) % 7

\* the market is open on a date: Monday to Friday
IsTradingWeekday(first_weekday, date) == WeekdayOf(first_weekday, date) \in 0..4

SpeedKinds == {[ind |-> UpRow, close |-> 100], [ind |-> DownRow, close |-> 100]}

\* positions opened at 100 on a date before Today
SpeedPositions ==
    {OpenedPosition([asset |-> IF dir = LONG THEN "SPY" ELSE EQUITY_INVERSE_SPY,
                     underlying |-> "SPY", direction |-> dir, tier |-> 1],
                    ed, 100, FracOfInt(1), calc_trade_params(100, dir, st, NULL)) :
        <<dir, ed, st>> \in {LONG, LONG_INVERSE} \X (1..HistDays) \X {STAGE_2, STAGE_3}}

InitSpeed ==
    /\ \E kind \in SpeedKinds : db = ExitDb(kind, Some(VixRow(15, Some("FALLING"))))
    /\ bt = NoRun /\ db2 = EmptyDb /\ bt2 = NoRun
    /\ pc = "speed"
    /\ \E first_weekday \in 0..6 : ret = [op |-> "init", first_weekday |-> first_weekday]

\* check_exits(position, current_close, Today, underlying, as_of_date = Today)
\* on a position entered on a trading day, Today being one as well
SpeedCheckReturns(position, current_close, r) ==
    /\ ret' = [op |-> "check_exits", first_weekday |-> ret.first_weekday,
               position |-> position, current_close |-> current_close,
               signal |-> r.signal]
    /\ db' = [db EXCEPT !.stages = r.stages]

CheckSpeed ==
    /\ pc = "speed" /\ ret.op = "init"
    /\ IsTradingWeekday(ret.first_weekday, Today)
    /\ \E position \in SpeedPositions, current_close \in Closes :
          /\ IsTradingWeekday(ret.first_weekday, position.entry_date)
          /\ SpeedCheckReturns(position, current_close,
                               check_exits(db, position, current_close, Today,
                                           position.underlying, Some(Today)))
    /\ UNCHANGED <<bt, db2, bt2, pc>>

NextSpeed == CheckSpeed

SpecSpeed == InitSpeed /\ [][NextSpeed]_vars

----------------------------------------------------------------------------
(* SpecEntry: one entry made on the same store by both engines:            *)
(* enter_position on the live tables (bt) and STEP 1 of run_backtest on a  *)
(* run with the entry pending (bt2)                                        *)

EntryKinds == {"S2", "S3", "S4", "T"}

\* atr_14 of the stored rows: missing, zero, and values on both sides of
\* the clamp
EntryAtrs == {NULL, Some(0), Some(1), Some(2), Some(4)}

\* the open of every stored day; the close is 100
EntryOpens == {60, 100}

\* MaxStageDate days of one kind with the drawn open and ATR, the stage
\* table as compute_stage_history leaves it
EntryDb(kind, atr, open) ==
    LET raw == [EmptyDb EXCEPT
                  !.prices["SPY"] =
                      [x \in Dates |-> IF x <= MaxStageDate
                                       THEN Some(PriceRow(Some(open), Some(100)))
                                       ELSE NULL],
                  !.indicators["SPY"] =
                      [x \in Dates |-> IF x <= MaxStageDate
                                       THEN Some([Val(StageKindInd(kind))
                                                     EXCEPT !.atr_14 = atr])
                                       ELSE NULL]]
    IN [raw EXCEPT !.stages = compute_stage_history(raw)]

\* the signal that a run holds for the next open: the direction drawn, the
\* stage that determine_stage gives for the symbol
PendingFor(d, direction) ==
    [asset |-> "SPY", underlying |-> "SPY", direction |-> direction, tier |-> 1,
     signal_strength |-> STRONG_ENTRY,
     stage |-> determine_stage(d, "SPY", NULL).stage,
     signal_date |-> MaxStageDate - 1]

InitEntry ==
    /\ \E kind \in EntryKinds, atr \in EntryAtrs, open \in EntryOpens :
          db = EntryDb(kind, atr, open)
    /\ bt = [has_stop_order_date |-> TRUE, row |-> InitialRow, trades |-> << >>]
    /\ db2 = EmptyDb
    /\ \E direction \in {LONG, LONG_INVERSE} :
          bt2 = [NewRun(MaxStageDate, MaxStageDate, << MaxStageDate >>)
                    EXCEPT !.i = 1, !.pending_entry = Some(PendingFor(db, direction))]
    /\ pc = "entry"
    /\ ret = [op |-> "init", n |-> 0]

\* enter_position with the pending signal's symbol and direction at the
\* price the run fills it at, sized from the cash
EnterLive ==
    /\ pc = "entry" /\ bt.row.state = STATE_CASH
    /\ NotNull(bt2.pending_entry) \/ NotNull(bt2.position)
    /\ LET direction == IF NotNull(bt2.pending_entry) THEN Val(bt2.pending_entry).direction
                        ELSE Val(bt2.position).direction
           r == enter_position([db |-> db, live |-> bt],
                               [symbol |-> "SPY", direction |-> direction,
                                entry_price |-> Val(get_open(db, "SPY", MaxStageDate)),
                                entry_date |-> Some(MaxStageDate),
                                shares |-> NULL, capital |-> NULL],
                               MaxStageDate)
       IN /\ db' = r.s.db
          /\ bt' = r.s.live
          /\ ret' = [op |-> "enter_position", n |-> ret.n + 1]
    /\ UNCHANGED <<db2, bt2, pc>>

\* STEP 1 of run_backtest on the fill date
FillEntry ==
    /\ pc = "entry" /\ NotNull(bt2.pending_entry)
    /\ bt2' = FillPending([db |-> db, run |-> bt2], MaxStageDate).run
    /\ ret' = [op |-> "fill", n |-> ret.n + 1]
    /\ UNCHANGED <<db, bt, db2, pc>>

NextEntry == EnterLive \/ FillEntry

SpecEntry == InitEntry /\ [][NextEntry]_vars

----------------------------------------------------------------------------
(* SpecFill: run_backtest over stores whose fill dates lack an open, hold  *)
(* an open of 0, or lack the asset's row altogether                        *)

\* a quiet uptrend day whose open is recorded as 0
ZeroOpenDay == Day(Some(UpRow), Some(UpStrongRow), Some(0), 100, Some(100), TRUE,
                   Some(VixRow(15, Some("FALLING"))), QuietVolume)

FillKinds == {BullDay, DipDay, ZeroOpenDay, GapDay, BearDay}

FillCalendars ==
    {[x \in Dates |-> IF x <= HistDays THEN h ELSE later[x]] :
        h \in HistoryKinds, later \in [(HistDays + 1)..MaxDate -> FillKinds]}

InitFill ==
    /\ \E days \in FillCalendars : db = StoreOf(days)
    /\ bt = Idle(HistDays, MaxDate)
    /\ db2 = EmptyDb /\ bt2 = NoRun
    /\ pc = "backtest"
    /\ ret = [op |-> "init", n |-> 0]

SpecFill == InitFill /\ [][Next]_vars

----------------------------------------------------------------------------
(* SpecAgree: compute_stage_history and determine_stage over the histories *)
(* that compute_all_indicators stores: the rows without sma_200 are the    *)
(* first rows of the series (rolling mean with min_periods = period over   *)
(* closes that ingestion keeps free of gaps)                               *)

\* the row of date x has no sma_200
YoungAt(kinds, x) == kinds[x] = "young"

AgreeHistories ==
    {kinds \in [1..MaxStageDate -> StageKinds] :
        \A x, y \in 1..MaxStageDate : (x < y /\ YoungAt(kinds, y)) => YoungAt(kinds, x)}

InitAgree ==
    /\ \E kinds \in AgreeHistories : db = StageDb(kinds)
    /\ bt = NoRun /\ db2 = EmptyDb /\ bt2 = NoRun
    /\ pc = "stage"
    /\ ret = [op |-> "init", n |-> 0]

SpecAgree == InitAgree /\ [][NextStage]_vars

----------------------------------------------------------------------------
(* SpecVotes: classify_stage on snapshots with every input present, the    *)
(* close and the averages drawn around 100 and the slopes drawn around the *)
(* threshold                                                               *)

VoteLevels == {98, 100, 102}

VoteSlopes ==
    {-2 * STAGE_SLOPE_THRESHOLD, -STAGE_SLOPE_THRESHOLD, 0,
     STAGE_SLOPE_THRESHOLD, 2 * STAGE_SLOPE_THRESHOLD}

InitVotes ==
    /\ db = EmptyDb /\ bt = NoRun /\ db2 = EmptyDb /\ bt2 = NoRun
    /\ pc = "classify"
    /\ \E close \in VoteLevels, sma_50 \in VoteLevels, sma_150 \in VoteLevels,
          sma_200 \in VoteLevels, slope_150 \in VoteSlopes, slope_200 \in VoteSlopes :
          ret = [op |-> "init", n |-> 0,
                 ind |-> WithClose(IndRow(Some(close), Some(close), Some(sma_50),
                                          Some(sma_150), Some(sma_200), Some(slope_150),
                                          Some(slope_200), Some(0), Some(50), Some(0),
                                          Some(2)),
                                   Some(close))]

SpecVotes == InitVotes /\ [][NextClassify]_vars

----------------------------------------------------------------------------
(* SpecRotation: compute_stage_history, then entry_signal or               *)
(* asset_rotation, over stores in which QQQ may have turned up only on the *)
(* last two days, its advance not yet confirmed                            *)

\* QQQ basing until two days ago, advancing since with the greater
\* relative strength
LateAdvance ==
    [x \in Dates |-> IF x <= Today - 2 THEN Some(BaseRow)
                     ELSE IF x <= Today THEN Some(UpStrongRow)
                     ELSE NULL]

\* a calm VIX, and a high and rising one
RotationVixRows == {Some(VixRow(15, Some("FALLING"))), Some(VixRow(35, Some("RISING")))}

RotationDb(kind, vix, vol, late) ==
    IF late
    THEN [SignalDb(kind, TodayOnly(vix), vol) EXCEPT !.indicators["QQQ"] = LateAdvance]
    ELSE SignalDb(kind, TodayOnly(vix), vol)

InitRotation ==
    /\ \E spy \in SymbolKinds.SPY, qqq \in SymbolKinds.QQQ, tlt \in SymbolKinds.TLT,
          uup \in SymbolKinds.UUP, udn \in SymbolKinds.UDN,
          vix \in RotationVixRows, vol \in VolumeRows, late \in BOOLEAN :
          db = RotationDb([SPY |-> spy, QQQ |-> qqq, TLT |-> tlt, UUP |-> uup, UDN |-> udn],
                          vix, vol, late)
    /\ bt = NoRun /\ db2 = EmptyDb /\ bt2 = NoRun
    /\ pc = "signals"
    /\ ret = [op |-> "init", n |-> 0]

SpecRotation == InitRotation /\ [][NextSignals]_vars

----------------------------------------------------------------------------
(* SpecLeverage: enter_position and exit_position called in any order on   *)
(* the live tables, with entries sized below and above the cash            *)

\* EnterTradeRequest: shares and capital are optional floats that the
\* endpoint takes as sent
SizedRequests ==
    [symbol : {"SPY"}, direction : {LONG, LONG_INVERSE}, entry_price : {3, 32},
     entry_date : {NULL}, shares : {NULL, Some(2), Some(4000)},
     capital : {NULL, Some(1000), Some(200000)}]

InitLeverage ==
    /\ db \in LiveStores
    /\ bt = [has_stop_order_date |-> TRUE, row |-> InitialRow, trades |-> << >>]
    /\ db2 = EmptyDb /\ bt2 = NoRun
    /\ pc = "live"
    /\ ret = [op |-> "init", n |-> 0, status |-> 200, body |-> [action |-> "INIT"]]

EnterSized ==
    /\ pc = "live" /\ ret.n < MaxCalls
    /\ \E req \in SizedRequests, today \in Todays :
          Responds("enter_position", enter_position([db |-> db, live |-> bt], req, today))

NextLeverage == EnterSized \/ ExitPosition

SpecLeverage == InitLeverage /\ [][NextLeverage]_vars

----------------------------------------------------------------------------
(* Reading the stages table, for the properties below *)

\* the dates of a column of the stages table that hold a row
RowDates(tab) == {x \in Dates : NotNull(tab[x])}

\* the confirmed stage a column of the stages table carries after the dates
\* ds: the raw stage of its latest row flagged confirmed, else TRANSITIONAL
CarriedStage(tab, ds) ==
    LET cs == {x \in ds \cap RowDates(tab) : Val(tab[x]).confirmed = 1}
    IN IF cs = {} THEN TRANSITIONAL ELSE Val(tab[MaxOf(cs)]).stage

CarriedBefore(tab, x) == CarriedStage(tab, {y \in Dates : y < x})

CarriedAt(tab, x) == CarriedStage(tab, {y \in Dates : y <= x})

\* the length of the run of identical raw stages that ends at row x
RECURSIVE RunLength(_, _)
RunLength(tab, x) ==
    LET before == {y \in RowDates(tab) : y < x}
    IN IF before = {} THEN 1
       ELSE IF Val(tab[MaxOf(before)]).stage = Val(tab[x]).stage
       THEN 1 + RunLength(tab, MaxOf(before))
       ELSE 1

SpyStages == db.stages["SPY"]

\* the state right after compute_stage_history
Folded == pc = "stage" /\ ret.op = "compute_stage_history"

(* C3: in the table compute_stage_history writes, a row that ends a run of  *)
(* fewer than 3 identical raw stages different from the confirmed stage     *)
(* leaves the confirmed stage as it was, and a row that ends a run of       *)
(* exactly 3 identical non-TRANSITIONAL raw stages makes that raw stage the *)
(* confirmed stage on that very row.                                        *)
C3_ConfirmationHysteresis ==
    Folded =>
        \A x \in RowDates(SpyStages) :
            LET raw == Val(SpyStages[x]).stage
                len == RunLength(SpyStages, x)
            IN /\ (len < STAGE_CONFIRMATION_DAYS /\ raw # CarriedBefore(SpyStages, x))
                      => CarriedAt(SpyStages, x) = CarriedBefore(SpyStages, x)
               /\ (len = STAGE_CONFIRMATION_DAYS /\ raw # TRANSITIONAL)
                      => CarriedAt(SpyStages, x) = raw

\* a confirmed stage is replaced on the 3rd day of a run, and a later run of 2
\* days of another stage has left a confirmed stage alone
C3_Witness ==
    /\ Folded
    /\ \E x \in RowDates(SpyStages) :
          /\ RunLength(SpyStages, x) = 3
          /\ Val(SpyStages[x]).stage # TRANSITIONAL
          /\ CarriedBefore(SpyStages, x) # Val(SpyStages[x]).stage
          /\ CarriedAt(SpyStages, x) = Val(SpyStages[x]).stage
    /\ \E y \in RowDates(SpyStages) :
          /\ RunLength(SpyStages, y) = 2
          /\ Val(SpyStages[y]).stage \notin {TRANSITIONAL, CarriedBefore(SpyStages, y)}
          /\ CarriedBefore(SpyStages, y) # TRANSITIONAL
          /\ CarriedAt(SpyStages, y) = CarriedBefore(SpyStages, y)

\* no row of the stages table holds TRANSITIONAL flagged confirmed
TransitionalRowsUnconfirmed ==
    \A s \in AnalysisSet : \A x \in RowDates(db.stages[s]) :
        Val(db.stages[s][x]).stage = TRANSITIONAL => Val(db.stages[s][x]).confirmed = 0

\* a determine_stage call that classifies its date TRANSITIONAL returns the
\* confirmed stage carried so far and leaves the carried stage as it was
TransitionalCallKeepsStage ==
    (ret'.op = "determine_stage" /\ ret'.raw_stage = TRANSITIONAL /\ NotNull(ret'.date))
        => /\ ret'.stage = CarriedBefore(SpyStages, Val(ret'.date))
           /\ ret'.confirmed = FALSE
           /\ CarriedAt(db'.stages["SPY"], Val(ret'.date))
                 = CarriedBefore(SpyStages, Val(ret'.date))

(* C4: TRANSITIONAL never becomes confirmed: every row written by           *)
(* compute_stage_history or determine_stage with raw stage TRANSITIONAL has *)
(* confirmed = 0, and a TRANSITIONAL day leaves the carried confirmed stage *)
(* unchanged.                                                               *)
C4_TransitionalNeverConfirmed ==
    [](TransitionalRowsUnconfirmed) /\ [][TransitionalCallKeepsStage]_vars

\* determine_stage has just stored a TRANSITIONAL row while a confirmed
\* non-TRANSITIONAL stage was carried, and returned that stage
C4_Witness ==
    /\ pc = "stage" /\ ret.op = "determine_stage"
    /\ ret.raw_stage = TRANSITIONAL /\ ret.stage # TRANSITIONAL
    /\ NotNull(ret.date) /\ NotNull(SpyStages[Val(ret.date)])
    /\ Val(SpyStages[Val(ret.date)]) = StageRow(TRANSITIONAL, FALSE, 0)

----------------------------------------------------------------------------
(* Exit priority *)

\* the call check_exits was last made with, and its five conditions read off
\* the store and the position
ExitCall == ret.op = "check_exits"

ExitReason == IF IsNull(ret.signal) THEN "NONE" ELSE Val(ret.signal).reason

VixCond ==
    LET vix == db.vix_indicators[Today]
    IN NotNull(vix) /\ Val(vix).vix_close > 40 /\ Val(vix).vix_trend = Some("RISING")

StopCond == ret.current_close * 1000 <= ret.position.stop

FlipCond ==
    LET stage == CarriedAt(db.stages["SPY"], Today)
    IN IF ret.position.direction = LONG THEN stage \in {STAGE_3, STAGE_4}
       ELSE stage \in {STAGE_1, STAGE_2}

TargetCond ==
    ~ret.position.partial_exited /\ ret.current_close * 1000 >= ret.position.first_target

TrailCond ==
    /\ ret.position.partial_exited
    /\ ret.current_close * (1000 - ret.position.trailing_pct) > ret.position.stop

\* C5: check_exits returns the reason of the first rule, in the order VIX
\* emergency, stop hit, stage flip, first target, trailing stop, whose
\* condition holds, and None when no condition holds
C5_ExitPriority ==
    ExitCall =>
        ExitReason = IF VixCond THEN "VIX_EMERGENCY"
                     ELSE IF StopCond THEN "STOP_HIT"
                     ELSE IF FlipCond THEN "STAGE_CHANGE"
                     ELSE IF TargetCond THEN "TARGET_HIT"
                     ELSE IF TrailCond THEN "TRAILING_STOP"
                     ELSE "NONE"

\* a VIX emergency wins over a stop that is hit and a stage that flipped
C5_Witness ==
    ExitCall /\ VixCond /\ StopCond /\ FlipCond /\ ExitReason = "VIX_EMERGENCY"

----------------------------------------------------------------------------
(* Entry strength and asset rotation *)

EntryCall == ret.op = "entry_signal"

\* how many of the four pillar outcomes entry_signal returned are favorable
FavorablePillars ==
    Cardinality({p \in {"stage", "trend", "volatility", "volume"} : ret.pillar_results[p]})

\* C7: entry_signal returns STRONG_ENTRY iff all 4 pillars are favorable,
\* MODERATE_ENTRY iff exactly 3 are, NO_ENTRY otherwise, in both directions,
\* and the score is the count of favorable pillars
C7_EntryStrength ==
    EntryCall =>
        /\ ret.score = FavorablePillars
        /\ ret.signal = STRONG_ENTRY <=> FavorablePillars = 4
        /\ ret.signal = MODERATE_ENTRY <=> FavorablePillars = 3
        /\ ret.signal = NO_ENTRY <=> FavorablePillars <= 2

\* an inverse entry with exactly three favorable pillars
C7_Witness ==
    /\ EntryCall /\ ret.direction = LONG_INVERSE
    /\ FavorablePillars = 3 /\ ~ret.pillar_results.volume
    /\ ret.signal = MODERATE_ENTRY

RotationCall == ret.op = "asset_rotation"

\* the latest row of vix_indicators dated Today or before
AsOfVix ==
    LET ds == {x \in 1..Today : NotNull(db.vix_indicators[x])}
    IN IF ds = {} THEN NULL ELSE db.vix_indicators[MaxOf(ds)]

VixVeto ==
    NotNull(AsOfVix) /\ Val(AsOfVix).vix_close > 40 /\ Val(AsOfVix).vix_trend = Some("RISING")

CashRotation == [asset |-> "BIL", direction |-> "HOLD", tier |-> 4, signal_strength |-> "NO_ENTRY"]

\* the confirmed stage of a symbol as the stages table carries it Today
StageNow(s) == CarriedAt(db.stages[s], Today)

\* the five instruments in their fixed order: the tier gate, the symbol and
\* direction the entry signal is asked for, the asset and tier returned
Offers ==
    << [gate |-> StageNow("SPY") = STAGE_2 \/ StageNow("QQQ") = STAGE_2,
        on |-> equity_pick(db, Some(Today)), direction |-> LONG,
        asset |-> equity_pick(db, Some(Today)), tier |-> 1],
       [gate |-> StageNow("SPY") = STAGE_4, on |-> "SPY", direction |-> LONG_INVERSE,
        asset |-> "SH", tier |-> 1],
       [gate |-> StageNow("TLT") = STAGE_2, on |-> "TLT", direction |-> LONG,
        asset |-> "TLT", tier |-> 2],
       [gate |-> StageNow("UUP") = STAGE_2, on |-> "UUP", direction |-> LONG,
        asset |-> "UUP", tier |-> 3],
       [gate |-> StageNow("UUP") = STAGE_4 /\ StageNow("UDN") = STAGE_2, on |-> "UDN",
        direction |-> LONG, asset |-> "UDN", tier |-> 3] >>

Strength(k) ==
    entry_signal(db, Offers[k].on, Offers[k].direction,
                 [stage |-> StageNow(Offers[k].on)], Some(Today)).signal

Passes(k) == Offers[k].gate /\ Strength(k) \in {STRONG_ENTRY, MODERATE_ENTRY}

\* the first instrument in the order whose gate holds and whose entry
\* strength is STRONG or MODERATE, cash when there is none
FirstOffer ==
    IF \E k \in 1..5 : Passes(k)
    THEN LET k == CHOOSE i \in 1..5 : Passes(i) /\ \A j \in 1..(i - 1) : ~Passes(j)
         IN [asset |-> Offers[k].asset, direction |-> Offers[k].direction,
             tier |-> Offers[k].tier, signal_strength |-> Strength(k)]
    ELSE CashRotation

\* a higher tier that passes while a VIX emergency holds
VetoOverrides == VixVeto /\ \E k \in 1..5 : Passes(k)

\* C8: when the as-of VIX close is above 40 and the VIX trend is RISING,
\* asset_rotation returns cash (HOLD, NO_ENTRY, tier 4), whatever the stages
\* and entry signals of the tiers are
C8_VixVeto == RotationCall /\ VixVeto => ret.rotation = CashRotation

\* cash is returned under a VIX emergency although a tier passes
C8_Witness == RotationCall /\ VetoOverrides /\ ret.rotation = CashRotation

\* C9 as stated: asset_rotation returns the first instrument in the order
\* equities long, equities inverse, bonds, UUP, UDN whose gate holds and whose
\* entry strength is STRONG or MODERATE, and cash only when none does
C9_TierPriorityAsStated == RotationCall => ret.rotation = FirstOffer

\* C9, amended: the same, for a call the VIX emergency gate does not
\* short-circuit
C9_TierPriority == RotationCall /\ ~VixVeto => ret.rotation = FirstOffer

\* equities inverse and bonds both pass, equities long does not, and the
\* inverse instrument is returned
C9_Witness ==
    /\ RotationCall /\ ~VixVeto
    /\ ~Passes(1) /\ Passes(2) /\ Passes(3)
    /\ ret.rotation.asset = "SH" /\ ret.rotation.tier = 1

----------------------------------------------------------------------------
(* Claims about run_backtest, over Spec *)

\* the run is inside its loop, at least one date processed
InLoop == bt.phase = "run" /\ bt.i >= 1

\* the date the last iteration processed
Processed == bt.trading_dates[bt.i]

\* this step is an iteration of the loop that opened a position
OpensPosition ==
    /\ bt.phase = "run" /\ bt'.phase = "run"
    /\ bt'.trade_count > bt.trade_count

\* the positions of the dates in the trading dates
DateIndex(run, date) == {k \in DOMAIN run.trading_dates : run.trading_dates[k] = date}

\* C1: every position opened by run_backtest is opened from an entry signal
\* that was pending before the date was processed, its entry date is strictly
\* later than the date the signal was generated on, and it is no earlier than
\* the trading date that follows the signal's date.
C1_NoLookaheadFill ==
    [][OpensPosition =>
          /\ NotNull(bt.pending_entry)
          /\ NotNull(bt'.position)
          /\ Val(bt.pending_entry).signal_date < Val(bt'.position).entry_date
          /\ \E k \in DateIndex(bt, Val(bt.pending_entry).signal_date) :
                /\ k + 1 \in DOMAIN bt.trading_dates
                /\ Val(bt'.position).entry_date >= bt.trading_dates[k + 1]]_vars

\* a position was opened on the date just processed, at the open or the close
\* of that date
C1_Witness ==
    /\ InLoop /\ bt.i >= 2
    /\ NotNull(bt.position)
    /\ Val(bt.position).entry_date = Processed
    /\ bt.trade_count >= 1

\* C6: after every processed date at most one of pending entry and open
\* position exists, and a position is only opened in a step that starts with
\* no position open.
C6_SinglePosition ==
    [][/\ bt'.phase = "run" => ~(NotNull(bt'.pending_entry) /\ NotNull(bt'.position))
       /\ OpensPosition => IsNull(bt.position)]_vars

\* a second position is open after an earlier one was closed, and no entry is
\* pending beside it
C6_Witness ==
    /\ InLoop
    /\ NotNull(bt.position) /\ IsNull(bt.pending_entry)
    /\ bt.trade_count >= 2 /\ Len(bt.trades) >= 1

\* the last trading date of a finished run
FinalDate == bt.trading_dates[Len(bt.trading_dates)]

\* the ledger entries of the n-th position opened
TradesOf(n) == {k \in DOMAIN bt.trades : bt.trades[k].trade_num = n}

\* C10 as stated: when run_backtest has returned, each of the trade_count
\* positions opened is exactly one CLOSED trade of the ledger, and a position
\* still open after the final date is the trade with exit date the final
\* date, exit price that date's close and reason BACKTEST_END.
C10_ClosedExactlyOnce ==
    bt.phase = "done" =>
        /\ \A n \in 1..bt.trade_count :
              /\ Cardinality(TradesOf(n)) = 1
              /\ \A k \in TradesOf(n) : bt.trades[k].status = "CLOSED"
        /\ NotNull(bt.position) =>
              \E k \in TradesOf(bt.trade_count) :
                 /\ bt.trades[k].exit_reason = "BACKTEST_END"
                 /\ bt.trades[k].exit_date = FinalDate
                 /\ Some(bt.trades[k].exit_price)
                       = get_close(db, Val(bt.position).symbol, FinalDate)

----------------------------------------------------------------------------
(* Claim about two runs, over SpecNoFuture *)

\* the two stores hold the same price, indicator, VIX and volume rows on every
\* date up to t
AgreeUpTo(t) ==
    \A x \in 1..t :
        /\ \A s \in Symbols : db.prices[s][x] = db2.prices[s][x]
        /\ \A s \in AnalysisSet : db.indicators[s][x] = db2.indicators[s][x]
        /\ db.vix_indicators[x] = db2.vix_indicators[x]
        /\ db.volume_indicators[x] = db2.volume_indicators[x]

\* the entries of a log dated up to t
UpTo(log, t) == SelectSeq(log, LAMBDA e : e.date <= t)

\* the exits a run decided on dates up to t
ExitsUpTo(run, t) ==
    SelectSeq(run.trades, LAMBDA e : e.exit_date <= t /\ e.exit_reason # "BACKTEST_END")

\* the run has processed every one of its trading dates up to t
Through(run, t) ==
    \/ run.phase = "done"
    \/ /\ run.phase = "run"
       /\ \A k \in DOMAIN run.trading_dates : run.trading_dates[k] <= t => k <= run.i

\* both runs have just processed the same date, up to t
BothAt(t) ==
    /\ bt.phase = "run" /\ bt2.phase = "run"
    /\ bt.i = bt2.i /\ bt.i >= 1
    /\ bt.trading_dates[bt.i] <= t /\ bt2.trading_dates[bt2.i] <= t

\* what a run carries from one date to the next
Carried(run) ==
    [cash |-> run.cash, position |-> run.position, pending_entry |-> run.pending_entry,
     trade_count |-> run.trade_count, vix_cooldown |-> run.vix_cooldown,
     cooldown_days |-> run.cooldown_days]

\* C2: for two stores that agree on every record dated up to T, the two runs
\* of run_backtest have, once each has processed its dates up to T, the same
\* log, the same equity and the same exits on the dates up to T, and after
\* processing the same date up to T the same pending signal, open position,
\* cash and cooldown.
C2_NoFutureData ==
    \A t \in Dates :
        AgreeUpTo(t) =>
            /\ Through(bt, t) /\ Through(bt2, t) =>
                  /\ UpTo(bt.daily_log, t) = UpTo(bt2.daily_log, t)
                  /\ UpTo(bt.equity_curve, t) = UpTo(bt2.equity_curve, t)
                  /\ ExitsUpTo(bt, t) = ExitsUpTo(bt2, t)
            /\ BothAt(t) => Carried(bt) = Carried(bt2)

\* the stores agree up to a date and differ after it, both runs have gone past
\* it, and the first run has acted on a date up to it and on a later one
C2_Witness ==
    \E t \in Dates :
        /\ AgreeUpTo(t) /\ t < MaxDate /\ ~AgreeUpTo(t + 1)
        /\ bt.phase = "done" /\ bt2.phase = "done"
        /\ \E k \in DOMAIN bt.trades : bt.trades[k].exit_date <= t
        /\ \E k \in DOMAIN bt.trades : bt.trades[k].entry_date > t
        /\ bt.trades # bt2.trades

----------------------------------------------------------------------------
(* Claims about the equity run_backtest records, over Spec *)

\* the run has a loop state: it is inside the loop or has returned from it
Ran == bt.phase \in {"run", "done"}

\* the k-th date was logged with a position whose symbol has no close on it
HeldWithoutClose(k) ==
    /\ NotNull(bt.daily_log[k].position)
    /\ IsNull(get_close(db, Val(bt.daily_log[k].position), bt.daily_log[k].date))

\* C11 as stated: run_backtest appends exactly one equity point per trading
\* date processed, and on a date where the held symbol has no close the
\* equity recorded is the equity of the date before.
C11_EquityCarriedForward ==
    Ran =>
        /\ Len(bt.equity_curve) = bt.i
        /\ \A k \in DOMAIN bt.equity_curve :
              /\ bt.equity_curve[k].date = bt.trading_dates[k]
              /\ HeldWithoutClose(k) =>
                    /\ k > 1
                    /\ bt.equity_curve[k].equity = bt.equity_curve[k - 1].equity

\* C11, the part the code keeps: exactly one equity point per trading date
\* processed, in the order of the dates.
C11_OnePointPerDate ==
    Ran =>
        /\ Len(bt.equity_curve) = bt.i
        /\ Len(bt.daily_log) = bt.i
        /\ \A k \in DOMAIN bt.equity_curve :
              /\ bt.equity_curve[k].date = bt.trading_dates[k]
              /\ bt.daily_log[k].date = bt.trading_dates[k]

----------------------------------------------------------------------------

\* this step is one iteration of the loop of run_backtest
LoopStep == bt.phase = "run" /\ bt'.phase = "run" /\ bt'.i = bt.i + 1

\* cash plus the shares of the position (none: no shares) valued at price p
WorthAt(cash, position, p) ==
    IF NotNull(position) THEN FracAdd(cash, FracScale(Val(position).shares, p, 1))
    ELSE cash

\* the equity point the iteration appended
LastEquity(run) == run.equity_curve[Len(run.equity_curve)]

\* the close of the held symbol on the date of the last equity point
HeldClose(d, run) == get_close(d, Val(run.position).symbol, LastEquity(run).date)

\* the close, on the date this iteration processes, of the symbol held when it
\* starts
CloseForHeld == get_close(db, Val(bt.position).symbol, LastEquity(bt').date)

\* C12: after every iteration of the loop cash and shares are not negative,
\* the equity recorded for the date is the cash when flat and cash + shares x
\* close when the held symbol has a close; an entry leaves no cash and buys
\* shares worth exactly the cash there was at the entry price; and an
\* iteration that starts with a position whose symbol closes at p on the date
\* leaves cash + shares x p unchanged, whatever exit it executes.
C12_EquityIdentity ==
    [][LoopStep =>
          /\ bt'.cash.num >= 0
          /\ NotNull(bt'.position) => Val(bt'.position).shares.num >= 0
          /\ IsNull(bt'.position) => LastEquity(bt').equity = bt'.cash
          /\ NotNull(bt'.position) /\ NotNull(HeldClose(db', bt')) =>
                LastEquity(bt').equity
                   = WorthAt(bt'.cash, bt'.position, Val(HeldClose(db', bt')))
          /\ OpensPosition =>
                /\ bt'.cash = FracOfInt(0)
                /\ WorthAt(bt'.cash, bt'.position, Val(bt'.position).entry_price) = bt.cash
          /\ NotNull(bt.position) /\ NotNull(CloseForHeld) =>
                WorthAt(bt'.cash, bt'.position, Val(CloseForHeld))
                   = WorthAt(bt.cash, bt.position, Val(CloseForHeld))]_vars

\* a position partly sold: cash and shares both positive, the equity of the
\* date recorded from a close that is present and above the entry price
C12_Witness ==
    /\ InLoop
    /\ NotNull(bt.position) /\ Val(bt.position).partial_exited
    /\ bt.cash.num > 0 /\ Val(bt.position).shares.num > 0
    /\ NotNull(HeldClose(db, bt))
    /\ Val(HeldClose(db, bt)) > Val(bt.position).entry_price
    /\ LastEquity(bt).equity.num > InitialCapital * LastEquity(bt).equity.den

----------------------------------------------------------------------------
(* Claims about the cooldowns of run_backtest, over Spec *)

\* this iteration of the loop executed a full exit
FullExitStep == LoopStep /\ Len(bt'.trades) > Len(bt.trades)

\* the exit dates of the ledger of a run
ExitDates(run) == {run.trades[k].exit_date : k \in DOMAIN run.trades}

\* C13: an iteration that executes a full exit on date T ends with no entry
\* signal pending and no position open, and an iteration that opens a
\* position does so on a date that is neither the date of a full exit nor the
\* trading date right after one.
C13_PostExitCooldown ==
    [][/\ FullExitStep => IsNull(bt'.pending_entry) /\ IsNull(bt'.position)
       /\ OpensPosition =>
             /\ bt'.trading_dates[bt'.i] \notin ExitDates(bt')
             /\ bt'.i > 1 => bt'.trading_dates[bt'.i - 1] \notin ExitDates(bt')]_vars

\* a position was opened on the second trading date after a full exit, from
\* the signal of the date after the exit
C13_Witness ==
    /\ InLoop /\ bt.i >= 3
    /\ NotNull(bt.position) /\ Val(bt.position).entry_date = Processed
    /\ bt.trading_dates[bt.i - 2] \in ExitDates(bt)

----------------------------------------------------------------------------

\* the dates up to date that have a VIX row
VixDatesUpTo(date) == {x \in 1..date : NotNull(db.vix_indicators[x])}

\* the as-of VIX close of a date is below the emergency level (no VIX row up
\* to the date counts as a close of 0)
VixBelowLevel(date) ==
    \/ VixDatesUpTo(date) = {}
    \/ \E x \in VixDatesUpTo(date) :
          /\ \A y \in VixDatesUpTo(date) : y <= x
          /\ Val(db.vix_indicators[x]).vix_close < VIX_EMERGENCY_LEVEL

\* this iteration executed a full exit with reason VIX_EMERGENCY
VixExitStep ==
    /\ FullExitStep
    /\ bt'.trades[Len(bt'.trades)].exit_reason = "VIX_EMERGENCY"

\* C14: the VIX cooldown is on after an iteration exactly when the iteration
\* executed a VIX_EMERGENCY exit, or started with the cooldown on and
\* processed a date whose as-of VIX close is not below the emergency level;
\* and an iteration that ends with the cooldown on opens no position and
\* leaves no entry signal pending and no position open.
C14_VixCooldown ==
    [][LoopStep =>
          /\ bt'.vix_cooldown <=>
                \/ VixExitStep
                \/ bt.vix_cooldown /\ ~VixBelowLevel(bt'.trading_dates[bt'.i])
          /\ bt'.vix_cooldown =>
                /\ ~OpensPosition
                /\ IsNull(bt'.pending_entry) /\ IsNull(bt'.position)]_vars

\* the cooldown set by a VIX_EMERGENCY exit has lasted through a date whose
\* VIX row is at or above the level without an emergency, and was lifted on a
\* later date, on which an entry signal was generated
C14_Witness ==
    /\ InLoop /\ bt.i >= 3
    /\ ~bt.vix_cooldown
    /\ \E k \in DOMAIN bt.trades :
          /\ bt.trades[k].exit_reason = "VIX_EMERGENCY"
          /\ bt.trades[k].exit_date = bt.trading_dates[bt.i - 2]
    /\ NotNull(db.vix_indicators[bt.trading_dates[bt.i - 1]])
    /\ ~VixBelowLevel(bt.trading_dates[bt.i - 1])
    /\ NotNull(bt.pending_entry) /\ Val(bt.pending_entry).signal_date = Processed

----------------------------------------------------------------------------
(* C15 *)

\* the stored portfolio state holds a position
PositionOpen(live) == live.row.state \in {STATE_POSITIONED, STATE_PARTIAL, STATE_ENTERING}

\* this step is a call that the stored state does not allow
InconsistentCall ==
    \/ ret'.op = "enter_position" /\ PositionOpen(bt)
    \/ ret'.op \in {"exit_position", "update_stop", "renew_stop_order"}
       /\ ~PositionOpen(bt)

\* C15: enter_position while a position is open, and exit_position,
\* update_stop or renew_stop_order while none is open, each answer with an
\* explicit error (HTTP 400 with a detail message) and leave the stored
\* portfolio state and the trade log as they were.
C15_InconsistentCallsRefused ==
    [][InconsistentCall =>
          /\ ret'.status = 400
          /\ "detail" \in DOMAIN ret'.body
          /\ bt'.row = bt.row
          /\ bt'.trades = bt.trades]_vars

\* enter_position was refused while a position opened by an earlier call,
\* and since partially exited, is stored
C15_Witness ==
    /\ ret.op = "enter_position" /\ ret.status = 400
    /\ bt.row.state = STATE_PARTIAL
    /\ bt.trades = << >>

----------------------------------------------------------------------------
(* C16 *)

\* the ledger holds trades: a run that has started, or the live tables
HasTrades(b) == pc = "live" \/ b.phase \in {"run", "done"}

\* the open position of the ledger, NULL when there is none
OpenPosition(b) ==
    IF pc = "live"
    THEN (IF PositionOpen(b) THEN Some([entry_price |-> Val(b.row.entry_price),
                                        entry_date |-> Val(b.row.entry_date),
                                        symbol |-> Val(b.row.symbol)])
          ELSE NULL)
    ELSE IF NotNull(b.position)
    THEN Some([entry_price |-> Val(b.position).entry_price,
               entry_date |-> Val(b.position).entry_date,
               symbol |-> Val(b.position).symbol])
    ELSE NULL

\* pnl_pct (hundredths of a percent) is (exit - entry) / entry x 100 rounded
\* to 2 decimals: no multiple of 0.01 is nearer to the exact value
RoundedPnl(t) ==
    2 * Abs(t.pnl_pct * t.entry_price - 10000 * (t.exit_price - t.entry_price))
        <= t.entry_price

\* this step appends a trade
TradeLogged ==
    /\ HasTrades(bt) /\ HasTrades(bt')
    /\ Len(bt'.trades) > Len(bt.trades)

\* this step ends a position: one was open and none is after the step, or
\* the run returns after closing out what remained
PositionClosed ==
    /\ HasTrades(bt) /\ HasTrades(bt')
    /\ NotNull(OpenPosition(bt))
    /\ IsNull(OpenPosition(bt'))

\* C16: a step that fully closes a position (a full exit or the
\* BACKTEST_END close of run_backtest, a full exit_position of the live
\* ledger) appends exactly one trade, of the position that was open, whose
\* pnl_pct is (exit price - entry price) / entry price x 100 rounded to 2
\* decimals; after a full exit no position is open, and after BACKTEST_END
\* the run has returned.  No other step appends a trade.
C16_RoundTrip ==
    [][/\ PositionClosed => TradeLogged
       /\ TradeLogged =>
             /\ NotNull(OpenPosition(bt))
             /\ Len(bt'.trades) = Len(bt.trades) + 1
             /\ SubSeq(bt'.trades, 1, Len(bt.trades)) = bt.trades
             /\ LET t == bt'.trades[Len(bt'.trades)]
                IN /\ t.entry_price = Val(OpenPosition(bt)).entry_price
                   /\ t.entry_date = Val(OpenPosition(bt)).entry_date
                   /\ t.symbol = Val(OpenPosition(bt)).symbol
                   /\ RoundedPnl(t)
                   /\ IF pc = "backtest" /\ t.exit_reason = "BACKTEST_END"
                      THEN bt'.phase = "done"
                      ELSE IsNull(OpenPosition(bt'))]_vars

\* a backtest has closed one position by an exit rule and another at
\* BACKTEST_END, one of them at a percentage that needed rounding
C16_Witness ==
    /\ pc = "backtest" /\ bt.phase = "done"
    /\ \E j, k \in DOMAIN bt.trades :
          /\ bt.trades[j].exit_reason # "BACKTEST_END"
          /\ bt.trades[k].exit_reason = "BACKTEST_END"
          /\ (bt.trades[k].exit_price - bt.trades[k].entry_price) * 10000
                 % bt.trades[k].entry_price # 0

----------------------------------------------------------------------------
(* C17 *)

\* calc_trade_params has returned for a LONG entry with a positive ATR
LongWithAtr ==
    /\ pc = "params" /\ ret.op = "calc_trade_params"
    /\ ret.direction = LONG
    /\ NotNull(ret.atr) /\ Val(ret.atr) > 0

\* C17: with ATR stops enabled and a positive ATR, the initial stop of a
\* LONG position is entry - clamp(3 x ATR, 4% of entry, 10% of entry), so it
\* lies in [0.90 x entry, 0.96 x entry]; entry 100 gives 94 with ATR 2 and 90
\* with ATR 20 (stops in thousandths).
C17_AtrStopClamp ==
    LongWithAtr =>
        LET e == ret.entry_price
            raw == 3 * Val(ret.atr) * 1000
            distance == e * 1000 - ret.params.initial_stop
        IN /\ USE_ATR_STOPS
           /\ distance = (IF raw < 40 * e THEN 40 * e
                          ELSE IF raw > 100 * e THEN 100 * e ELSE raw)
           /\ 900 * e <= ret.params.initial_stop
           /\ ret.params.initial_stop <= 960 * e
           /\ (e = 100 /\ Val(ret.atr) = 2 => ret.params.initial_stop = 94000)
           /\ (e = 100 /\ Val(ret.atr) = 20 => ret.params.initial_stop = 90000)

\* entry 100 with ATR 20: the distance of 60 was clamped to 10
C17_Witness ==
    /\ LongWithAtr
    /\ ret.entry_price = 100 /\ ret.atr = Some(20)
    /\ ret.params.initial_stop = 90000

----------------------------------------------------------------------------
(* C18 *)

\* the table column that the last retrieval read
TableRead ==
    IF ret.op = "get_latest_indicators" THEN db.indicators[ret.symbol]
    ELSE IF ret.op = "get_latest_vix" THEN db.vix_indicators
    ELSE db.volume_indicators

\* the dates of the rows a retrieval with ret.as_of may return
Eligible ==
    {x \in Dates : /\ TableRead[x] # NULL
                   /\ (ret.as_of = NULL \/ x <= Val(ret.as_of))}

\* C18: get_latest_indicators(symbol, as_of_date) returns the record of that
\* symbol with the greatest date <= as_of_date, never one dated after it, and
\* none when there is no such record; with as_of_date omitted it returns the
\* most recent record overall.  get_latest_vix and get_latest_volume follow
\* the same rule on their tables.
C18_AsOfLookup ==
    (pc = "lookup" /\ ret.op # "init") =>
        IF Eligible = {} THEN ret.result = NULL
        ELSE /\ ret.result # NULL
             /\ Val(ret.result).date \in Eligible
             /\ \A x \in Eligible : x <= Val(ret.result).date
             /\ Val(ret.result).row = Val(TableRead[Val(ret.result).date])

\* a lookup as of a date with a row on it and rows after it returned the row
\* of that date
C18_Witness ==
    /\ pc = "lookup" /\ ret.op = "get_latest_indicators" /\ ret.symbol = "SPY"
    /\ ret.as_of # NULL /\ ret.result # NULL
    /\ Val(ret.result).date = Val(ret.as_of)
    /\ \E x \in Dates : x > Val(ret.as_of) /\ db.indicators["SPY"][x] # NULL

----------------------------------------------------------------------------
(* C19 *)

\* classify_vix has returned
Classified == pc = "vix" /\ ret.op = "classify_vix"

\* the value classified, in hundredths
Hundredths == Val(ret.vix_value).num

\* C19: classify_vix(v) is LOW for v < 15, NORMAL for 15 <= v < 20,
\* ELEVATED for 20 <= v < 30, HIGH for 30 <= v < 40, EXTREME for v >= 40, and
\* None for a missing value.
C19_VixIntervals ==
    Classified =>
        IF ret.vix_value = NULL THEN ret.regime = NULL
        ELSE /\ ret.regime # NULL
             /\ (Val(ret.regime) = "LOW") <=> (Hundredths < 1500)
             /\ (Val(ret.regime) = "NORMAL") <=> (1500 <= Hundredths /\ Hundredths < 2000)
             /\ (Val(ret.regime) = "ELEVATED") <=> (2000 <= Hundredths /\ Hundredths < 3000)
             /\ (Val(ret.regime) = "HIGH") <=> (3000 <= Hundredths /\ Hundredths < 4000)
             /\ (Val(ret.regime) = "EXTREME") <=> (Hundredths >= 4000)

\* a value on a lower bound was classified into the interval it opens
C19_Witness ==
    /\ Classified
    /\ ret.vix_value # NULL /\ Hundredths = 3000
    /\ ret.regime = Some("HIGH")

----------------------------------------------------------------------------
(* C20 *)

\* calc_sma has returned for a series without missing values
SmaComputed ==
    /\ pc = "sma" /\ ret.op = "calc_sma"
    /\ \A i \in DOMAIN ret.series : ret.series[i] # NULL

\* the sum of the k values of series ending at index i
RECURSIVE TrailingSum(_, _, _)
TrailingSum(series, i, k) ==
    IF k = 0 THEN 0 ELSE Val(series[i]) + TrailingSum(series, i - 1, k - 1)

\* C20: calc_sma(series, period) has one entry per entry of the series; it is
\* undefined at every index with fewer than period observations so far and at
\* every later index it is the arithmetic mean of exactly the trailing period
\* values; period 5 over 10..20 leaves the first 4 undefined, gives 12 at
\* index 4 (from 0) and 18 at the last index.
C20_SmaDefinedness ==
    SmaComputed =>
        /\ DOMAIN ret.sma = DOMAIN ret.series
        /\ \A i \in DOMAIN ret.series :
              IF i < ret.period THEN ret.sma[i] = NULL
              ELSE /\ ret.sma[i] # NULL
                   /\ Val(ret.sma[i]).den > 0
                   /\ Val(ret.sma[i]).num * ret.period
                          = TrailingSum(ret.series, i, ret.period) * Val(ret.sma[i]).den
        /\ (ret.series = TestSeries /\ ret.period = 5 =>
               /\ \A i \in 1..4 : ret.sma[i] = NULL
               /\ ret.sma[5] = Some(FracOfInt(12))
               /\ ret.sma[11] = Some(FracOfInt(18)))

\* the series of test_sma with period 5
C20_Witness ==
    /\ SmaComputed
    /\ ret.series = TestSeries /\ ret.period = 5
    /\ ret.sma[4] = NULL /\ ret.sma[5] # NULL

----------------------------------------------------------------------------
(* C21 *)

\* calc_volume_ratios has returned
RatiosComputed == pc = "volume" /\ ret.op = "calc_volume_ratios"

\* ratio is undefined when denominator is 0 and numerator / denominator
\* otherwise
IsQuotient(ratio, numerator, denominator) ==
    IF denominator = 0 THEN ratio = NULL
    ELSE /\ ratio # NULL
         /\ Val(ratio).den > 0
         /\ Val(ratio).num * denominator = numerator * Val(ratio).den

\* C21: on every day with both volumes recorded, calc_volume_ratios gives
\* panic = down / up and fomo = up / down, each undefined (no value, not an
\* infinite one) exactly when its denominator is zero; up = 1e9 and
\* down = 3e9 give panic = 3 and fomo = 1/3.
C21_VolumeRatios ==
    RatiosComputed =>
        /\ DOMAIN ret.frame = DOMAIN ret.up
        /\ \A i \in DOMAIN ret.up :
              (ret.up[i] # NULL /\ ret.down[i] # NULL) =>
                 /\ IsQuotient(ret.frame[i].panic_ratio, Val(ret.down[i]), Val(ret.up[i]))
                 /\ IsQuotient(ret.frame[i].fomo_ratio, Val(ret.up[i]), Val(ret.down[i]))
                 /\ (ret.up[i] = Some(1) /\ ret.down[i] = Some(3) =>
                        /\ ret.frame[i].panic_ratio = Some([num |-> 3, den |-> 1])
                        /\ ret.frame[i].fomo_ratio = Some([num |-> 1, den |-> 3]))

\* a day without up volume: panic is undefined and fomo is defined
C21_Witness ==
    /\ RatiosComputed
    /\ \E i \in DOMAIN ret.up :
          /\ ret.up[i] = Some(0) /\ ret.down[i] = Some(3)
          /\ ret.frame[i].panic_ratio = NULL
          /\ ret.frame[i].fomo_ratio = Some([num |-> 0, den |-> 1])

----------------------------------------------------------------------------
(* C22 *)

\* a float result that is an infinity
IsInfinite(x) == x # NULL /\ Val(x).inf # 0

\* calc_sma_slope returned no value wherever the earlier SMA is 0, and no
\* infinity
SlopeAbsorbed ==
    (pc = "ratios" /\ ret.op = "calc_sma_slope") =>
        \A i \in DOMAIN ret.series :
            /\ (i > ret.period /\ ret.series[i - ret.period] = Some(0)) =>
                   ret.result[i] = NULL
            /\ ~IsInfinite(ret.result[i])

\* calc_bollinger_bands returned no bandwidth wherever the middle band is 0,
\* no %B wherever the band range is 0, and no infinity
BandsAbsorbed ==
    (pc = "ratios" /\ ret.op = "calc_bollinger_bands") =>
        \A i \in DOMAIN ret.series :
            /\ ret.result[i].middle = Some(FracOfInt(0)) => ret.result[i].bandwidth = NULL
            /\ ret.result[i].variance = Some(FracOfInt(0)) => ret.result[i].percent_b = NULL
            /\ ~IsInfinite(ret.result[i].bandwidth)
            /\ ~IsInfinite(ret.result[i].percent_b)

\* calc_relative_strength returned no value wherever the SMA is 0, and no
\* infinity
StrengthAbsorbed ==
    (pc = "ratios" /\ ret.op = "calc_relative_strength") =>
        \A i \in DOMAIN ret.series :
            /\ calc_sma(ret.series, ret.period)[i] = Some(FracOfInt(0)) =>
                   ret.result[i] = NULL
            /\ ~IsInfinite(ret.result[i])

\* C22: every indicator that divides (the SMA slope by the earlier SMA, the
\* Bollinger bandwidth by the middle band, %B by the band range, the relative
\* strength by the SMA) has no value whenever its denominator is zero, and
\* never an infinite one.
C22_DegenerateAbsorbed == SlopeAbsorbed /\ BandsAbsorbed /\ StrengthAbsorbed

----------------------------------------------------------------------------
(* C23 *)

\* the rows of a table of the store
RowsOf(table) == {table[x] : x \in Dates} \ {NULL}

\* trend_check lacks an input: no indicator row, no close, or a moving
\* average missing
TrendInputMissing ==
    \/ RowsOf(db.indicators["SPY"]) = {}
    \/ \A p \in RowsOf(db.prices["SPY"]) : Val(p).close = NULL
    \/ \E r \in RowsOf(db.indicators["SPY"]) :
          \E f \in {"sma_5", "sma_20", "sma_50", "sma_150", "sma_200"} : Val(r)[f] = NULL

\* the volume table has rows and every ratio of them is undefined
VolumeRatiosUndefined ==
    /\ RowsOf(db.volume_indicators) # {}
    /\ \A v \in RowsOf(db.volume_indicators) :
          Val(v).panic_ratio = NULL /\ Val(v).fomo_ratio = NULL
             /\ Val(v).fomo_ratio_ma = NULL

\* C23: a pillar whose inputs are missing is unfavorable: trend_check without
\* an indicator row, a close or one of the five moving averages,
\* volatility_check without a VIX row, volume_check on a volume row whose
\* ratios are all undefined; volume_check is favorable when the volume table
\* has no row at all.
C23_MissingDataConservative ==
    /\ (ret.op = "trend_check" /\ TrendInputMissing) => ~ret.favorable
    /\ (ret.op = "volatility_check" /\ RowsOf(db.vix_indicators) = {}) => ~ret.favorable
    /\ (ret.op = "volume_check" /\ VolumeRatiosUndefined) => ~ret.favorable
    /\ (ret.op = "volume_check" /\ RowsOf(db.volume_indicators) = {}) => ret.favorable

\* volume_check for a long entry has scored a row of undefined ratios
C23_Witness ==
    /\ ret.op = "volume_check" /\ ret.direction = LONG
    /\ VolumeRatiosUndefined
    /\ ~ret.favorable

----------------------------------------------------------------------------
(* C24 *)

\* the first call left a stage row on a date that compute_stage_history
\* does not visit: determine_stage stored it during the loop
StoredByDetermineStage ==
    \E x \in Dates :
       /\ x \notin HistoryDates(db, "SPY")
       /\ NotNull(db.stages["SPY"][x])
       /\ Val(db.stages["SPY"][x]).stage = TRANSITIONAL

\* C24: a second run_backtest over the same date range, on the store as the
\* first run left it (with the stage rows that compute_stage_history and
\* determine_stage wrote), returns the same trades and the same equity curve.
C24_DeterministicReplay ==
    (bt.phase = "done" /\ bt2.phase = "done") =>
        /\ bt2.trades = bt.trades
        /\ bt2.equity_curve = bt.equity_curve
        /\ bt2.final_capital = bt.final_capital

\* both runs have returned with a trade, and the first one stored stage rows
\* through determine_stage as well
C24_Witness ==
    /\ bt.phase = "done" /\ bt2.phase = "done"
    /\ Len(bt2.trades) > 0
    /\ StoredByDetermineStage

----------------------------------------------------------------------------
(* C25 *)

\* the row before date x in a column of the stages table, NULL when x holds
\* the first row
PreviousRecord(tab, x) ==
    LET before == {y \in Dates : y < x /\ tab[y] # NULL}
    IN IF before = {} THEN NULL
       ELSE tab[CHOOSE y \in before : \A z \in before : z <= y]

\* the run length the rule gives the row at date x
RunLengthRule(tab, x) ==
    LET row == Val(tab[x])
        prev == PreviousRecord(tab, x)
    IN IF row.stage = TRANSITIONAL THEN 0
       ELSE IF prev # NULL /\ Val(prev).stage = row.stage
       THEN Val(prev).consecutive_days + 1
       ELSE 1

\* every row of SPY's column has the run length of the rule
RunLengthKept ==
    \A x \in Dates :
       db.stages["SPY"][x] # NULL =>
          Val(db.stages["SPY"][x]).consecutive_days = RunLengthRule(db.stages["SPY"], x)

\* the rows that compute_stage_history writes follow the rule
HistoryRunLengthKept == ret.op = "compute_stage_history" => RunLengthKept

\* C25: in every stage record written by compute_stage_history and by
\* determine_stage, consecutive_days is 0 when the raw stage is TRANSITIONAL,
\* 1 when the raw stage differs from the previous record's raw stage, and the
\* previous consecutive_days + 1 when it is the same non-TRANSITIONAL stage.
C25_RunLength ==
    ret.op \in {"compute_stage_history", "determine_stage"} => RunLengthKept

----------------------------------------------------------------------------
(* C26 *)

\* both histories are computed
PairComputed == pc = "pair" /\ ret.n = 2

\* what a column of the stages table says about date t (0: before the first
\* date): the raw stage, the run length and the confirmed stage in force
RawAt(tab, t) == IF t = 0 THEN NULL ELSE Some(Val(tab[t]).stage)

RunLengthAt(tab, t) == IF t = 0 THEN 0 ELSE Val(tab[t]).consecutive_days

ConfirmedAt(tab, t) ==
    LET cs == {x \in 1..t : Val(tab[x]).confirmed = 1}
    IN IF cs = {} THEN TRANSITIONAL
       ELSE Val(tab[CHOOSE x \in cs : \A y \in cs : y <= x]).stage

\* the two histories give date t the same confirmed stage and run length
SameOutcome(t) ==
    /\ ConfirmedAt(db.stages["SPY"], t) = ConfirmedAt(db2.stages["SPY"], t)
    /\ RunLengthAt(db.stages["SPY"], t) = RunLengthAt(db2.stages["SPY"], t)

\* the two histories agree on the raw stage at t and on the confirmed stage
\* and the run length carried from t - 1
SameCarriedPair(t) ==
    /\ RawAt(db.stages["SPY"], t) = RawAt(db2.stages["SPY"], t)
    /\ ConfirmedAt(db.stages["SPY"], t - 1) = ConfirmedAt(db2.stages["SPY"], t - 1)
    /\ RunLengthAt(db.stages["SPY"], t - 1) = RunLengthAt(db2.stages["SPY"], t - 1)

\* C26 as stated: the confirmed stage and the run length at t are determined
\* by the raw stage at t, the confirmed stage at t - 1 and the run length at
\* t - 1 alone.
C26_AsStated ==
    PairComputed => \A t \in 1..MaxPairDate : SameCarriedPair(t) => SameOutcome(t)

\* C26: the confirmed stage and the run length at t produced by
\* compute_stage_history are determined by the raw stage at t together with
\* what the loop carries from t - 1: the confirmed stage, the run length and
\* the raw stage that this run length counts.
C26_ConfirmationPure ==
    PairComputed =>
        \A t \in 1..MaxPairDate :
           (SameCarriedPair(t)
               /\ RawAt(db.stages["SPY"], t - 1) = RawAt(db2.stages["SPY"], t - 1))
              => SameOutcome(t)

\* two histories that differ on the first date and agree on what is carried
\* into the last one, where a new stage is confirmed
C26_Witness ==
    /\ PairComputed
    /\ RawAt(db.stages["SPY"], 1) # RawAt(db2.stages["SPY"], 1)
    /\ SameCarriedPair(MaxPairDate)
    /\ RawAt(db.stages["SPY"], MaxPairDate - 1) = RawAt(db2.stages["SPY"], MaxPairDate - 1)
    /\ ConfirmedAt(db.stages["SPY"], MaxPairDate) # ConfirmedAt(db.stages["SPY"], MaxPairDate - 1)

----------------------------------------------------------------------------
(* C27 *)

\* classify_stage has returned
StageClassified == pc = "classify" /\ ret.op = "classify_stage"

\* a missing close, average or 150-day or 200-day slope gives TRANSITIONAL
RequiredInputsForceTransitional ==
    (StageClassified /\ \E f \in StageInputs \ {"sma_50_slope"} : ret.ind[f] = NULL)
       => ret.result = TRANSITIONAL

\* C27: classify_stage returns TRANSITIONAL whenever any of close, sma_50,
\* sma_150, sma_200, sma_150_slope, sma_200_slope, sma_50_slope is missing,
\* whatever the other values are.
C27_MissingForcesTransitional ==
    (StageClassified /\ \E f \in StageInputs : ret.ind[f] = NULL)
       => ret.result = TRANSITIONAL

----------------------------------------------------------------------------
(* C28 *)

\* the position as STEP 1 of this iteration opens it, from the signal pending
\* before the iteration and the cash held then
OpenedUntouched ==
    LET pos == Val(bt'.position)
        pending == Val(bt.pending_entry)
        date == bt'.trading_dates[bt'.i]
    IN /\ pos.entry_date = date
       /\ ~pos.partial_exited
       /\ pos.shares = FracScale(bt.cash, 1, pos.entry_price)
       /\ pos.stop = calc_trade_params(pos.entry_price, pending.direction, pending.stage,
                                       get_atr(db, pending.underlying, date)).initial_stop

\* C28: run_backtest applies no exit action (full exit, partial exit or stop
\* update) to a position on its entry date: the iteration that opens a
\* position ends with it open, whole and at its initial stop and appends no
\* trade, and every trade whose reason is not BACKTEST_END has its exit date
\* after its entry date.
C28_NoExitOnEntryDay ==
    [][/\ OpensPosition =>
             /\ bt'.trades = bt.trades
             /\ NotNull(bt'.position)
             /\ OpenedUntouched
       /\ \A k \in DOMAIN bt'.trades :
             bt'.trades[k].exit_reason # "BACKTEST_END"
                => bt'.trades[k].exit_date > bt'.trades[k].entry_date]_vars

\* a position was opened on a date whose VIX is an emergency, and is still
\* open at the end of that iteration
C28_Witness ==
    /\ InLoop
    /\ NotNull(bt.position) /\ Val(bt.position).entry_date = Processed
    /\ VixEmergency(get_latest_vix(db, Some(Processed)))

----------------------------------------------------------------------------
(* C29 *)

\* the confirmed stage of the underlying runs against the direction
Against(direction, stage) ==
    IF direction = LONG THEN stage \in {STAGE_3, STAGE_4}
    ELSE stage \in {STAGE_1, STAGE_2}

\* sig is a full exit, for STAGE_CHANGE unless the VIX emergency or the stop
\* applies
ClosesOnFlip(sig, vix, current_close, stop) ==
    /\ sig # NULL
    /\ Val(sig).action = "FULL_EXIT"
    /\ (~VixEmergency(vix) /\ current_close * 1000 > stop)
          => Val(sig).reason = "STAGE_CHANGE"

\* check_exits, called as of Today, returned on a position whose underlying
\* is in a stage against it
FlipChecked ==
    /\ pc = "exits" /\ ret.op = "check_exits"
    /\ Against(ret.position.direction,
               determine_stage(db, ret.position.underlying, Some(Today)).stage)

\* this iteration of the loop evaluates a position (opened on an earlier date,
\* its close available) whose underlying is in a stage against it
FlipStep ==
    /\ pc = "backtest" /\ LoopStep
    /\ NotNull(bt.position)
    /\ Val(bt.position).entry_date # bt'.trading_dates[bt'.i]
    /\ NotNull(get_close(db, Val(bt.position).symbol, bt'.trading_dates[bt'.i]))
    /\ Against(Val(bt.position).direction,
               determine_stage(db, Val(bt.position).underlying,
                               Some(bt'.trading_dates[bt'.i])).stage)

\* the iteration closed the position it held: one more trade, of that
\* position, dated the date processed, and no position open
ClosedThatDay ==
    /\ IsNull(bt'.position)
    /\ Len(bt'.trades) = Len(bt.trades) + 1
    /\ bt'.trades[Len(bt'.trades)].symbol = Val(bt.position).symbol
    /\ bt'.trades[Len(bt'.trades)].entry_date = Val(bt.position).entry_date
    /\ bt'.trades[Len(bt'.trades)].exit_date = bt'.trading_dates[bt'.i]

\* C29: on a day evaluated for a position (after its entry day, with a close)
\* on which the underlying's confirmed stage is STAGE_3 or STAGE_4 for LONG,
\* STAGE_1 or STAGE_2 for LONG_INVERSE, check_exits returns a FULL_EXIT and
\* run_backtest closes the position that day; the reason is STAGE_CHANGE
\* unless the VIX emergency or the stop applies as well.
C29_StageFlipCloses ==
    [][/\ FlipChecked' =>
             ClosesOnFlip(ret'.signal, get_latest_vix(db', Some(Today)),
                          ret'.current_close, ret'.position.stop)
       /\ FlipStep =>
             /\ ClosedThatDay
             /\ (~VixEmergency(get_latest_vix(db, Some(bt'.trading_dates[bt'.i])))
                   /\ Val(get_close(db, Val(bt.position).symbol,
                                    bt'.trading_dates[bt'.i])) * 1000
                         > Val(bt.position).stop)
                  => bt'.trades[Len(bt'.trades)].exit_reason = "STAGE_CHANGE"]_vars

\* run_backtest closed a position for STAGE_CHANGE on the date processed
C29_Witness ==
    /\ pc = "backtest" /\ InLoop
    /\ Len(bt.trades) > 0
    /\ bt.trades[Len(bt.trades)].exit_reason = "STAGE_CHANGE"
    /\ bt.trades[Len(bt.trades)].exit_date = Processed

----------------------------------------------------------------------------
(* C30 *)

\* check_exits returned the partial exit of a first target hit
TargetHit ==
    /\ pc = "speed" /\ ret.op = "check_exits"
    /\ ret.signal # NULL
    /\ Val(ret.signal).reason = "TARGET_HIT"

\* the Monday-to-Friday days after the entry date up to Today
BusinessDaysSinceEntry ==
    Cardinality({c \in (ret.position.entry_date * DaysPerStep + 1)..(Today * DaysPerStep) :
                    (ret.first_weekday + c) % 7 \in 0..4})

\* the calendar days from the entry date to Today
CalendarDaysSinceEntry == (Today - ret.position.entry_date) * DaysPerStep

\* the boosted share: partial_exit_pct + 0.25, capped at 0.75 (in hundredths)
Boosted(partial_exit_pct) ==
    IF partial_exit_pct + 25 <= 75 THEN partial_exit_pct + 25 ELSE 75

\* the boost as the calendar decides it: up to 4 calendar days after entry
BoostByCalendarDays ==
    TargetHit =>
        Val(ret.signal).exit_pct =
            Some(IF CalendarDaysSinceEntry <= 4 THEN Boosted(ret.position.partial_exit_pct)
                 ELSE ret.position.partial_exit_pct)

\* C30: on a first-target hit check_exits returns
\* exit_pct = min(partial_exit_pct + 0.25, 0.75) if and only if the number
\* of business days (Monday to Friday) from the entry date to the current
\* date is at most 2, and exactly partial_exit_pct otherwise.
C30_SpeedCheckBoost ==
    TargetHit =>
        Val(ret.signal).exit_pct =
            Some(IF BusinessDaysSinceEntry <= 2 THEN Boosted(ret.position.partial_exit_pct)
                 ELSE ret.position.partial_exit_pct)

----------------------------------------------------------------------------
(* C31 *)

\* this iteration of the loop kept the position it held
KeepsPosition ==
    /\ LoopStep
    /\ NotNull(bt.position) /\ NotNull(bt'.position)
    /\ Val(bt'.position).entry_date = Val(bt.position).entry_date

\* this iteration sold part of the position it held
PartialExitStep == KeepsPosition /\ Val(bt'.position).shares # Val(bt.position).shares

\* the shares and the cash after selling pct hundredths of the shares at the
\* close of the date processed
SoldShare(pct) ==
    LET sold == FracScale(Val(bt.position).shares, pct, 100)
        close == Val(get_close(db, Val(bt.position).symbol, bt'.trading_dates[bt'.i]))
    IN /\ Val(bt'.position).shares = FracSub(Val(bt.position).shares, sold)
       /\ bt'.cash = FracAdd(bt.cash, FracScale(sold, close, 1))

\* C31: in run_backtest a position is partially exited only while
\* partial_exited is false; the partial exit sells exit_pct of the shares
\* (partial_exit_pct, or the speed-check share), sets partial_exited and moves
\* the stop to the entry price; a position that is partly exited keeps its
\* shares on every later day it is kept.
C31_PartialExitOnce ==
    [][/\ PartialExitStep =>
             /\ ~Val(bt.position).partial_exited
             /\ Val(bt'.position).partial_exited
             /\ Val(bt'.position).stop = Val(bt.position).entry_price * 1000
             /\ \/ SoldShare(Val(bt.position).partial_exit_pct)
                \/ SoldShare(Min2(Val(bt.position).partial_exit_pct + SPEED_CHECK_EXTRA_PCT,
                                  SPEED_CHECK_MAX_PCT))
       /\ (KeepsPosition /\ Val(bt.position).partial_exited) =>
             /\ Val(bt'.position).shares = Val(bt.position).shares
             /\ Val(bt'.position).partial_exited
             /\ bt'.cash = bt.cash]_vars

\* a partly exited position was evaluated on a later day with its close at or
\* above the first target: the stop was trailed up from the entry price
C31_Witness ==
    /\ InLoop /\ NotNull(bt.position)
    /\ Val(bt.position).partial_exited
    /\ Val(bt.position).stop > Val(bt.position).entry_price * 1000
    /\ NotNull(get_close(db, Val(bt.position).symbol, Processed))
    /\ Val(get_close(db, Val(bt.position).symbol, Processed)) * 1000
          >= Val(bt.position).first_target

----------------------------------------------------------------------------
(* C32 *)

\* the trailing stop at the close of the date this iteration processes
TrailAtClose ==
    Val(get_close(db, Val(bt.position).symbol, bt'.trading_dates[bt'.i]))
       * (1000 - Val(bt.position).trailing_pct)

\* C32: while run_backtest keeps a position its stop never moves down; it
\* moves only to the entry price at the partial exit, or, once the position
\* is partly exited, to close x (1 - trailing_pct) when that is strictly
\* above the current stop.
C32_StopNeverLowers ==
    [][KeepsPosition =>
          /\ Val(bt'.position).stop >= Val(bt.position).stop
          /\ Val(bt'.position).stop # Val(bt.position).stop =>
                \/ /\ PartialExitStep
                   /\ Val(bt'.position).stop = Val(bt.position).entry_price * 1000
                \/ /\ Val(bt.position).partial_exited
                   /\ Val(bt'.position).stop = TrailAtClose
                   /\ TrailAtClose > Val(bt.position).stop]_vars

\* a partly exited position whose stop stands at the trailing level of the
\* date processed
C32_Witness ==
    /\ InLoop /\ NotNull(bt.position)
    /\ Val(bt.position).partial_exited
    /\ NotNull(get_close(db, Val(bt.position).symbol, Processed))
    /\ Val(bt.position).stop =
          Val(get_close(db, Val(bt.position).symbol, Processed))
             * (1000 - Val(bt.position).trailing_pct)

----------------------------------------------------------------------------
(* C33 *)

\* none of the five exit rules matches the position at the close, for the
\* VIX row and the confirmed stage of the underlying as of the date
NoExitRule(position, current_close, vix, stage) ==
    /\ ~VixEmergency(vix)
    /\ current_close * 1000 > position.stop
    /\ ~Against(position.direction, stage)
    /\ position.partial_exited \/ current_close * 1000 < position.first_target
    /\ ~position.partial_exited
          \/ current_close * (1000 - position.trailing_pct) <= position.stop

\* check_exits, called as of Today, returned on a position that no rule
\* matches
HoldChecked ==
    /\ pc = "exits" /\ ret.op = "check_exits"
    /\ NoExitRule(ret.position, ret.current_close, get_latest_vix(db, Some(Today)),
                  determine_stage(db, ret.position.underlying, Some(Today)).stage)

\* this iteration of the loop evaluates a position (opened on an earlier date,
\* its close available) that no rule matches
HoldStep ==
    /\ pc = "backtest" /\ LoopStep
    /\ NotNull(bt.position)
    /\ Val(bt.position).entry_date # bt'.trading_dates[bt'.i]
    /\ NotNull(get_close(db, Val(bt.position).symbol, bt'.trading_dates[bt'.i]))
    /\ NoExitRule(Val(bt.position),
                  Val(get_close(db, Val(bt.position).symbol, bt'.trading_dates[bt'.i])),
                  get_latest_vix(db, Some(bt'.trading_dates[bt'.i])),
                  determine_stage(db, Val(bt.position).underlying,
                                  Some(bt'.trading_dates[bt'.i])).stage)

\* C33: when no exit rule matches on a day, check_exits returns no action and
\* run_backtest leaves the position (shares, stop, first target,
\* partial_exited and every other field), the cash, the cooldown counter and
\* the VIX-cooldown flag as they were, and appends no trade.
C33_HoldChangesNothing ==
    [][/\ HoldChecked' => ret'.signal = NULL
       /\ HoldStep =>
             /\ bt'.position = bt.position
             /\ bt'.cash = bt.cash
             /\ bt'.cooldown_days = bt.cooldown_days
             /\ bt'.vix_cooldown = bt.vix_cooldown
             /\ bt'.trades = bt.trades
             /\ bt'.pending_entry = bt.pending_entry]_vars

\* run_backtest has evaluated a position, opened on an earlier date, on a
\* date whose close matches no rule for it
C33_Witness ==
    /\ pc = "backtest" /\ InLoop
    /\ NotNull(bt.position)
    /\ Val(bt.position).entry_date # Processed
    /\ NotNull(get_close(db, Val(bt.position).symbol, Processed))
    /\ NoExitRule(Val(bt.position), Val(get_close(db, Val(bt.position).symbol, Processed)),
                  get_latest_vix(db, Some(Processed)),
                  determine_stage(db, Val(bt.position).underlying, Some(Processed)).stage)
    /\ bt.cooldown_days = 0 /\ ~bt.vix_cooldown

----------------------------------------------------------------------------
(* C34 *)

\* calc_trade_params has returned
ParamsReturned == pc = "params" /\ ret.op = "calc_trade_params"

\* no ATR the stop can be computed from: none given, or one that is not positive
NoUsableAtr == ~USE_ATR_STOPS \/ IsNull(ret.atr) \/ Val(ret.atr) <= 0

\* C34: calc_trade_params selects exactly one variant: INVERSE whenever the
\* direction is LONG_INVERSE, whatever the stage; otherwise STAGE3 when the
\* stage is STAGE_3; otherwise STANDARD.  First target, trailing percentage
\* and partial-exit fraction are those of the variant, and without a usable
\* ATR the stop is entry x (1 - fixed percentage): 4% for INVERSE, 5% for
\* the other two.
C34_VariantSelection ==
    ParamsReturned =>
        LET p == ret.params
            e == ret.entry_price
        IN /\ p.trade_type = (IF ret.direction = LONG_INVERSE THEN "INVERSE"
                              ELSE IF ret.stage = STAGE_3 THEN "STAGE3"
                              ELSE "STANDARD")
           /\ p.trade_type = "INVERSE" =>
                 /\ p.first_target = e * 1015
                 /\ p.trailing_pct = 20
                 /\ p.partial_exit_pct = 25
                 /\ NoUsableAtr => p.initial_stop = e * 960
           /\ p.trade_type = "STAGE3" =>
                 /\ p.first_target = e * 1015
                 /\ p.trailing_pct = 30
                 /\ p.partial_exit_pct = 50
                 /\ NoUsableAtr => p.initial_stop = e * 950
           /\ p.trade_type = "STANDARD" =>
                 /\ p.first_target = e * 1020
                 /\ p.trailing_pct = 30
                 /\ p.partial_exit_pct = 25
                 /\ NoUsableAtr => p.initial_stop = e * 950

\* an inverse entry while the stage is STAGE_3, with an ATR of zero: the
\* INVERSE variant with its fixed 4% stop
C34_Witness ==
    /\ ParamsReturned
    /\ ret.direction = LONG_INVERSE /\ ret.stage = STAGE_3
    /\ ret.atr = Some(0)
    /\ ret.params.trade_type = "INVERSE"
    /\ ret.params.initial_stop = ret.entry_price * 960

----------------------------------------------------------------------------
(* C35 *)

\* both engines have made the entry
BothEntered ==
    /\ pc = "entry"
    /\ bt.row.state = STATE_POSITIONED
    /\ NotNull(bt2.position)

\* the entry was made with the same price and direction, and the stage that
\* the live engine read is the one the pending signal carried
SameEntry ==
    /\ bt.row.entry_price = Some(Val(bt2.position).entry_price)
    /\ bt.row.direction = Some(Val(bt2.position).direction)

----------------------------------------------------------------------------
(* C36 *)

\* a price that an entry can be made at
Usable(price) == NotNull(price) /\ Val(price) > 0

\* the iteration opens a position on the processed date at entry_price with
\* all the cash
FilledAt(entry_price) ==
    /\ NotNull(bt'.position)
    /\ Val(bt'.position).entry_date = bt'.trading_dates[bt'.i]
    /\ Val(bt'.position).entry_price = entry_price
    /\ Val(bt'.position).symbol = Val(bt.pending_entry).asset
    /\ Val(bt'.position).shares = FracScale(bt.cash, 1, entry_price)
    /\ bt'.cash = FracOfInt(0)
    /\ bt'.trade_count = bt.trade_count + 1

\* the signal pending before the iteration is gone: none is pending after
\* it, or one raised on the processed date itself
PendingDiscarded ==
    \/ IsNull(bt'.pending_entry)
    \/ Val(bt'.pending_entry).signal_date = bt'.trading_dates[bt'.i]

----------------------------------------------------------------------------
(* C37 *)

\* the confirmed stage that the fold of compute_stage_history holds after
\* date, run on the store with an empty stage table
FoldConfirmedAt(date) ==
    LET tab == compute_stage_history([db EXCEPT !.stages = EmptyDb.stages])["SPY"]
        last_conf == LastConfirmedRow(tab, {x \in Dates : x <= date})
    IN IF NotNull(last_conf) THEN Val(last_conf) ELSE TRANSITIONAL

\* determine_stage has returned for the date ret.n
StageDetermined == pc = "stage" /\ ret.op = "determine_stage"

----------------------------------------------------------------------------
(* C38 *)

\* classify_stage has returned for a dict with all six inputs present
VotesCounted ==
    /\ pc = "classify" /\ ret.op = "classify_stage"
    /\ \A f \in {"close", "sma_50", "sma_150", "sma_200",
                 "sma_150_slope", "sma_200_slope"} : NotNull(ret.ind[f])

\* sum(s2) for the dict classified
AdvancingVotes ==
    CountTrue(S2Votes(Val(ret.ind.close), Val(ret.ind.sma_50), Val(ret.ind.sma_150),
                      Val(ret.ind.sma_200), Val(ret.ind.sma_150_slope),
                      Val(ret.ind.sma_200_slope)))

\* sum(s4) for the dict classified
DecliningVotes ==
    CountTrue(S4Votes(Val(ret.ind.close), Val(ret.ind.sma_50), Val(ret.ind.sma_150),
                      Val(ret.ind.sma_200), Val(ret.ind.sma_150_slope),
                      Val(ret.ind.sma_200_slope)))

\* C38: the STAGE_2 and STAGE_4 votes are mutually exclusive: with all
\* inputs present the five advancing and the five declining conditions
\* never both reach four, so a dict classified STAGE_2 has fewer than four
\* declining votes and STAGE_4 is returned exactly when the declining votes
\* reach four.
C38_VotesExclusive ==
    VotesCounted =>
        /\ ~(AdvancingVotes >= 4 /\ DecliningVotes >= 4)
        /\ (ret.result = STAGE_2) <=> (AdvancingVotes >= 4)
        /\ (ret.result = STAGE_4) <=> (DecliningVotes >= 4)

\* a dict with sma_200_slope strictly between the two thresholds, so that
\* the fifth condition of both lists holds, classified STAGE_4 with all
\* five declining votes
C38_Witness ==
    /\ VotesCounted
    /\ Val(ret.ind.sma_200_slope) > -STAGE_SLOPE_THRESHOLD
    /\ Val(ret.ind.sma_200_slope) < STAGE_SLOPE_THRESHOLD
    /\ DecliningVotes = 5 /\ AdvancingVotes = 1
    /\ ret.result = STAGE_4

----------------------------------------------------------------------------
(* C39 *)

\* asset_rotation has returned
RotationReturned == pc = "signals" /\ ret.op = "asset_rotation"

\* the confirmed stage of symbol on the day of the call
ConfirmedStageOf(symbol) == determine_stage(db, symbol, Some(Today)).stage

----------------------------------------------------------------------------
(* C40 *)

\* the stored row holds a position
PositionStored == NotNull(bt.row.symbol)

====
